---- MODULE Spec2Model ----
(***************************************************************************)
(* Interview auto-scheduler: ImprovedScheduler (two-phase and improved     *)
(* greedy strategies), SimpleScheduler (solver path and greedy path) and   *)
(* InterviewScheduler (exact formulation).                                 *)
(* Times are minutes since 2025-09-11 00:00.                               *)
(***************************************************************************)
EXTENDS Integers, Sequences, FiniteSets, TLC

(***************************************************************************)
(* Bounds of the model                                                     *)
(***************************************************************************)
NApplicants == 9
NRecruiters == 5
NRooms == 2

(***************************************************************************)
(* Program constants                                                       *)
(***************************************************************************)
SlotMinutes == 20
GroupMinutes == 40
IndividualMinutes == 20
MinGroupSize == 4
MaxGroupSize == 8
GroupRecruiters == 4
FlexMinRecruiters == 2
PreferredGroupSize == 5
MaxIterations == 50
ProximityMinutes == 90
DayMinutes == 1440

(***************************************************************************)
(* Generic helpers                                                         *)
(***************************************************************************)
Range(s) == {s[i] : i \in DOMAIN s}

Take(s, n) == SubSeq(s, 1, IF Len(s) < n THEN Len(s) ELSE n)

Keys(d) == [i \in 1..Len(d) |-> i]

TimeSlot(start, end) == [start |-> start, end |-> end]

Interview(type, time_slot, room, apps, recs) ==
    [type |-> type, time_slot |-> time_slot, room |-> room,
     applicants |-> apps, recruiters |-> recs]

\* TimeSlot.overlaps of improved_autoscheduler.py
Overlaps(a, b) == ~(a.end <= b.start \/ a.start >= b.end)

(***************************************************************************)
(* The scheduling grid                                                     *)
(***************************************************************************)
interview_periods ==
    << <<0 * DayMinutes + 17 * 60, 0 * DayMinutes + 21 * 60>>,
       <<1 * DayMinutes + 17 * 60, 1 * DayMinutes + 21 * 60>>,
       <<2 * DayMinutes + 9 * 60,  2 * DayMinutes + 21 * 60>>,
       <<3 * DayMinutes + 9 * 60,  3 * DayMinutes + 21 * 60>>,
       <<4 * DayMinutes + 17 * 60, 4 * DayMinutes + 21 * 60>> >>

\* The loop of a period with "<=" for its end test: a slot starting at the
\* period's end is appended as well.
PeriodSlotsInclusive(start_time, end_time) ==
    LET n == IF end_time >= start_time
             THEN (end_time - start_time) \div SlotMinutes + 1 ELSE 0
    IN [i \in 1..n |-> TimeSlot(start_time + (i - 1) * SlotMinutes,
                                start_time + i * SlotMinutes)]

\* while current_time + 20 <= end_time: append a slot, advance by 20
PeriodSlots(start_time, end_time) ==
    LET n == IF end_time >= start_time
             THEN (end_time - start_time) \div SlotMinutes ELSE 0
    IN [i \in 1..n |-> TimeSlot(start_time + (i - 1) * SlotMinutes,
                                start_time + i * SlotMinutes)]

RECURSIVE AllPeriodSlots(_)
AllPeriodSlots(k) ==
    IF k > Len(interview_periods) THEN <<>>
    ELSE PeriodSlots(interview_periods[k][1], interview_periods[k][2])
         \o AllPeriodSlots(k + 1)

\* Stable sort of a sequence of <<key, value>> pairs by key (Python's sorted):
\* an element's place is the number of elements that sort before it.
SortPairs(s) ==
    LET Before(j, i) == s[j][1] < s[i][1] \/ (s[j][1] = s[i][1] /\ j < i)
        Place(i) == Cardinality({j \in DOMAIN s : Before(j, i)}) + 1
    IN [r \in 1..Len(s) |-> s[CHOOSE i \in DOMAIN s : Place(i) = r]]

Values(pairs) == [i \in 1..Len(pairs) |-> pairs[i][2]]

time_slots ==
    LET raw == AllPeriodSlots(1)
    IN Values(SortPairs([i \in 1..Len(raw) |-> <<raw[i].start, raw[i]>>]))

\* dates_and_hours of SimpleScheduler and InterviewScheduler: day, start hour,
\* end hour
dates_and_hours ==
    << <<0, 17, 21>>, <<1, 17, 21>>, <<2, 9, 21>>, <<3, 9, 21>>, <<4, 17, 21>> >>

\* while current_time < end_time: append the slot if it ends by end_time,
\* advance by 20 minutes
RECURSIVE Simple_period_slots(_, _)
Simple_period_slots(current_time, end_time) ==
    IF ~(current_time < end_time) THEN <<>>
    ELSE LET slot_end == current_time + SlotMinutes
         IN (IF slot_end <= end_time
             THEN <<TimeSlot(current_time, slot_end)>> ELSE <<>>)
            \o Simple_period_slots(current_time + SlotMinutes, end_time)

\* _generate_time_slots of SimpleScheduler and InterviewScheduler: the slots
\* of the periods in list order, not sorted afterwards.
RECURSIVE Simple_generate_time_slots(_)
Simple_generate_time_slots(k) ==
    IF k > Len(dates_and_hours) THEN <<>>
    ELSE Simple_period_slots(dates_and_hours[k][1] * DayMinutes
                                 + dates_and_hours[k][2] * 60,
                             dates_and_hours[k][1] * DayMinutes
                                 + dates_and_hours[k][3] * 60)
         \o Simple_generate_time_slots(k + 1)

(***************************************************************************)
(* State                                                                   *)
(***************************************************************************)
VARIABLES
    scheduler,                      \* which scheduler class this run is of
    applicants, recruiters, rooms,  \* loaded data, in dict order
    scheduled_interviews,
    applicant_group_scheduled,
    applicant_individual_scheduled,
    room_schedule,                  \* set of <<start, room>> keys
    recruiter_schedule,             \* set of <<start, recruiter>> keys
    unscheduled_applicants,
    pc,                             \* position in the running method
    strategy,                       \* index into strategies
    applicant_list, pos,            \* loop over applicants
    group_scheduled,                \* local of the per-applicant loop body
    scheduled_completely,
    iteration, improvements,        \* locals of _phase2_optimize_spacing
    success,                        \* return value of the strategy
    best_result, best_score,
    ret,                            \* return value of schedule_interviews
    has_ortools,                    \* HAS_ORTOOLS
    solution,                       \* the variables the solver set to 1
    slot_pos, room_pos,             \* next iteration of the slot and room loops
    remaining_applicants,           \* local of _schedule_group_interviews_greedy
    passes                          \* the calls of _schedule_with_constraints made

vars == <<scheduler, applicants, recruiters, rooms, scheduled_interviews,
          applicant_group_scheduled, applicant_individual_scheduled,
          room_schedule, recruiter_schedule, unscheduled_applicants,
          pc, strategy, applicant_list, pos, group_scheduled,
          scheduled_completely, iteration, improvements, success,
          best_result, best_score, ret, has_ortools, solution,
          slot_pos, room_pos, remaining_applicants, passes>>

data == <<scheduler, applicants, recruiters, rooms, has_ortools>>

solver_locals == <<solution, slot_pos, room_pos, remaining_applicants, passes>>

(***************************************************************************)
(* Availability (exact containment)                                        *)
(***************************************************************************)
\* Containment of the start alone: the request may run past the interval's end.
ContainsStart(availability, start_time, duration_minutes) ==
    \E k \in DOMAIN availability :
        /\ start_time >= availability[k].start
        /\ start_time < availability[k].end

\* request_slot.start >= avail_slot.start and request_slot.end <= avail_slot.end
Contains(availability, start_time, duration_minutes) ==
    \E k \in DOMAIN availability :
        /\ start_time >= availability[k].start
        /\ start_time + duration_minutes <= availability[k].end

(***************************************************************************)
(* ImprovedScheduler: constraint evaluator                                 *)
(***************************************************************************)
Imp_is_applicant_available(applicant_id, start_time, duration_minutes) ==
    /\ applicant_id \in DOMAIN applicants
    /\ Contains(applicants[applicant_id].availability, start_time, duration_minutes)

Imp_is_recruiter_available(recruiter_id, start_time, duration_minutes) ==
    /\ recruiter_id \in DOMAIN recruiters
    /\ <<start_time, recruiter_id>> \notin recruiter_schedule
    /\ Contains(recruiters[recruiter_id].availability, start_time, duration_minutes)

Imp_is_room_available(room_id, start_time, duration_minutes) ==
    /\ room_id \in DOMAIN rooms
    /\ <<start_time, room_id>> \notin room_schedule
    /\ Contains(rooms[room_id].availability, start_time, duration_minutes)

\* start_time < interview_end and end_time > interview_start
Imp_recruiter_is_free(recruiter_id, start_time, end_time) ==
    \A k \in DOMAIN scheduled_interviews :
        recruiter_id \in Range(scheduled_interviews[k].recruiters)
            => ~(/\ start_time < scheduled_interviews[k].time_slot.end
                 /\ end_time > scheduled_interviews[k].time_slot.start)

\* The scan reduced to a comparison of start times, as a start-keyed occupancy
\* index gives it.
Imp_room_start_is_free(room_id, start_time, end_time) ==
    \A k \in DOMAIN scheduled_interviews :
        scheduled_interviews[k].room = room_id
            => start_time # scheduled_interviews[k].time_slot.start

Imp_room_is_free(room_id, start_time, end_time) ==
    \A k \in DOMAIN scheduled_interviews :
        scheduled_interviews[k].room = room_id
            => ~(/\ start_time < scheduled_interviews[k].time_slot.end
                 /\ end_time > scheduled_interviews[k].time_slot.start)

Imp_get_available_recruiters(start_time, duration) ==
    LET Free(recruiter_id) ==
            /\ Imp_is_recruiter_available(recruiter_id, start_time, duration)
            /\ Imp_recruiter_is_free(recruiter_id, start_time, start_time + duration)
    IN SelectSeq(Keys(recruiters), Free)

\* The rooms whose availability holds the interval, occupied or not.
Imp_get_open_rooms(start_time, duration) ==
    LET Open(room_id) ==
            /\ room_id \in DOMAIN rooms
            /\ Contains(rooms[room_id].availability, start_time, duration)
    IN SelectSeq(Keys(rooms), Open)

Imp_get_available_rooms(start_time, duration) ==
    LET Free(room_id) ==
            /\ Imp_is_room_available(room_id, start_time, duration)
            /\ Imp_room_is_free(room_id, start_time, start_time + duration)
    IN SelectSeq(Keys(rooms), Free)

Imp_has_scheduling_conflict(applicant_id, start_time, duration_minutes) ==
    \E k \in DOMAIN scheduled_interviews :
        /\ applicant_id \in Range(scheduled_interviews[k].applicants)
        /\ ~(\/ start_time + duration_minutes <= scheduled_interviews[k].time_slot.start
             \/ scheduled_interviews[k].time_slot.end <= start_time)

Abs(x) == IF x < 0 THEN -x ELSE x

RECURSIVE Imp_timing_score_from(_, _, _)
Imp_timing_score_from(k, applicant_id, start_time) ==
    IF k > Len(scheduled_interviews) THEN 0
    ELSE LET interview == scheduled_interviews[k]
             gap == Abs(interview.time_slot.start - start_time)
         IN (IF applicant_id \in Range(interview.applicants) /\ gap <= ProximityMinutes
             THEN 100 - gap ELSE 0)
            + Imp_timing_score_from(k + 1, applicant_id, start_time)

\* The timing score measured from the end of the scheduled interview.
RECURSIVE Imp_timing_score_by_end_from(_, _, _)
Imp_timing_score_by_end_from(k, applicant_id, start_time) ==
    IF k > Len(scheduled_interviews) THEN 0
    ELSE LET interview == scheduled_interviews[k]
             gap == Abs(interview.time_slot.end - start_time)
         IN (IF applicant_id \in Range(interview.applicants) /\ gap <= ProximityMinutes
             THEN 100 - gap ELSE 0)
            + Imp_timing_score_by_end_from(k + 1, applicant_id, start_time)

Imp_timing_score_by_end(applicant_id, start_time) ==
    Imp_timing_score_by_end_from(1, applicant_id, start_time)

Imp_timing_score(applicant_id, start_time) ==
    Imp_timing_score_from(1, applicant_id, start_time)

\* The joiners without the test of applicant_group_scheduled.
Imp_other_applicants_unflagged(applicant_id, start_time) ==
    LET Joins(other_id) ==
            /\ other_id # applicant_id
            /\ Imp_is_applicant_available(other_id, start_time, GroupMinutes)
            /\ ~Imp_has_scheduling_conflict(other_id, start_time, GroupMinutes)
    IN SelectSeq(Keys(applicants), Joins)

\* The joiners without the availability test.
Imp_other_applicants_any_time(applicant_id, start_time) ==
    LET Joins(other_id) ==
            /\ other_id # applicant_id
            /\ other_id \notin applicant_group_scheduled
            /\ ~Imp_has_scheduling_conflict(other_id, start_time, GroupMinutes)
    IN SelectSeq(Keys(applicants), Joins)

\* The other applicants that can join a group at start_time, in dict order.
Imp_other_applicants(applicant_id, start_time) ==
    LET Joins(other_id) ==
            /\ other_id # applicant_id
            /\ other_id \notin applicant_group_scheduled
            /\ Imp_is_applicant_available(other_id, start_time, GroupMinutes)
            /\ ~Imp_has_scheduling_conflict(other_id, start_time, GroupMinutes)
    IN SelectSeq(Keys(applicants), Joins)

(***************************************************************************)
(* ImprovedScheduler: placement search                                     *)
(***************************************************************************)
NoOption == [ok |-> FALSE]

\* The slot-loop body of _try_schedule_group_flexible taking as many recruiters
\* as the guard demands instead of up to 4.
Imp_group_flexible_candidate_min(applicant_id, time_slot) ==
    LET start == time_slot.start
        available_rooms == Imp_get_available_rooms(start, GroupMinutes)
        available_recruiters == Imp_get_available_recruiters(start, GroupMinutes)
        available_applicants ==
            <<applicant_id>> \o Imp_other_applicants(applicant_id, start)
        n == Len(available_applicants)
    IN  IF ~Imp_is_applicant_available(applicant_id, start, GroupMinutes) THEN NoOption
        ELSE IF Imp_has_scheduling_conflict(applicant_id, start, GroupMinutes) THEN NoOption
        ELSE IF Len(available_rooms) = 0 \/ Len(available_recruiters) < FlexMinRecruiters
             THEN NoOption
        ELSE IF ~(n >= MinGroupSize) THEN NoOption
        ELSE [ok |-> TRUE,
              score |-> n * 10 + Len(available_recruiters) * 5
                        + Imp_timing_score(applicant_id, start)
                        + (IF n >= PreferredGroupSize THEN 50 ELSE 0),
              option |-> [time_slot |-> time_slot,
                          applicants |-> Take(available_applicants, MaxGroupSize),
                          recruiters |-> Take(available_recruiters, FlexMinRecruiters),
                          room |-> available_rooms[1]]]

\* One iteration of the slot loop of _try_schedule_group_flexible.
Imp_group_flexible_candidate(applicant_id, time_slot) ==
    LET start == time_slot.start
        available_rooms == Imp_get_available_rooms(start, GroupMinutes)
        available_recruiters == Imp_get_available_recruiters(start, GroupMinutes)
        available_applicants ==
            <<applicant_id>> \o Imp_other_applicants(applicant_id, start)
        n == Len(available_applicants)
    IN  IF ~Imp_is_applicant_available(applicant_id, start, GroupMinutes) THEN NoOption
        ELSE IF Imp_has_scheduling_conflict(applicant_id, start, GroupMinutes) THEN NoOption
        ELSE IF Len(available_rooms) = 0 \/ Len(available_recruiters) < FlexMinRecruiters
             THEN NoOption
        ELSE IF ~(n >= MinGroupSize) THEN NoOption
        ELSE [ok |-> TRUE,
              score |-> n * 10 + Len(available_recruiters) * 5
                        + Imp_timing_score(applicant_id, start)
                        + (IF n >= PreferredGroupSize THEN 50 ELSE 0),
              option |-> [time_slot |-> time_slot,
                          applicants |-> Take(available_applicants, MaxGroupSize),
                          recruiters |-> Take(available_recruiters, GroupRecruiters),
                          room |-> available_rooms[1]]]

\* One iteration of the slot loop of _try_schedule_individual_flexible.
Imp_individual_flexible_candidate(applicant_id, time_slot) ==
    LET start == time_slot.start
        available_rooms == Imp_get_available_rooms(start, IndividualMinutes)
        available_recruiters == Imp_get_available_recruiters(start, IndividualMinutes)
    IN  IF ~Imp_is_applicant_available(applicant_id, start, IndividualMinutes) THEN NoOption
        ELSE IF Imp_has_scheduling_conflict(applicant_id, start, IndividualMinutes)
             THEN NoOption
        ELSE IF Len(available_rooms) = 0 \/ Len(available_recruiters) = 0 THEN NoOption
        ELSE [ok |-> TRUE,
              score |-> 100 + Len(available_recruiters) * 2
                        + Imp_timing_score(applicant_id, start),
              option |-> [time_slot |-> time_slot,
                          room |-> available_rooms[1],
                          recruiter |-> available_recruiters[1]]]

NoBest == [found |-> FALSE, best_score |-> -1]

\* The slots at which the loop body reaches the scoring, in grid order; at the
\* others it leaves by "continue".
ScoredCandidates(cand) ==
    LET Scored(c) == c.ok
    IN SelectSeq(cand, Scored)

\* The slot loop with "if score >= best_score": a later slot with the same
\* score replaces the earlier one.
RECURSIVE Imp_last_best_option_from(_, _, _)
Imp_last_best_option_from(scored, k, best) ==
    IF k > Len(scored) THEN best
    ELSE Imp_last_best_option_from(scored, k + 1,
            IF scored[k].score >= best.best_score
            THEN [found |-> TRUE, best_score |-> scored[k].score,
                  best_option |-> scored[k].option]
            ELSE best)

Imp_last_best_option(cand) ==
    Imp_last_best_option_from(ScoredCandidates(cand), 1, NoBest)

\* The slot loop from the k-th scored slot on: "if score > best_score"
\* replaces the best option found so far.
RECURSIVE Imp_best_option_from(_, _, _)
Imp_best_option_from(scored, k, best) ==
    IF k > Len(scored) THEN best
    ELSE Imp_best_option_from(scored, k + 1,
            IF scored[k].score > best.best_score
            THEN [found |-> TRUE, best_score |-> scored[k].score,
                  best_option |-> scored[k].option]
            ELSE best)

\* best_option after the slot loop, starting from best_score = -1.
Imp_best_option(cand) ==
    Imp_best_option_from(ScoredCandidates(cand), 1, NoBest)

\* One iteration of the slot loop of _schedule_applicant_group_interview.
Imp_group_greedy_candidate(applicant_id, time_slot) ==
    LET start == time_slot.start
        available_rooms == Imp_get_available_rooms(start, GroupMinutes)
        available_recruiters == Imp_get_available_recruiters(start, GroupMinutes)
        other_applicants == Imp_other_applicants(applicant_id, start)
    IN  IF ~Imp_is_applicant_available(applicant_id, start, GroupMinutes) THEN NoOption
        ELSE IF Imp_has_scheduling_conflict(applicant_id, start, GroupMinutes) THEN NoOption
        ELSE IF Len(available_rooms) = 0 \/ Len(available_recruiters) < GroupRecruiters
             THEN NoOption
        ELSE IF Len(other_applicants) < MinGroupSize - 1 THEN NoOption
        ELSE [ok |-> TRUE,
              option |-> [time_slot |-> time_slot,
                          applicants |-> <<applicant_id>>
                                         \o Take(other_applicants, MaxGroupSize - 1),
                          recruiters |-> Take(available_recruiters, GroupRecruiters),
                          room |-> available_rooms[1]]]

\* One iteration of the slot loop of _schedule_applicant_individual_interview.
Imp_individual_greedy_candidate(applicant_id, time_slot) ==
    LET start == time_slot.start
        available_rooms == Imp_get_available_rooms(start, IndividualMinutes)
        available_recruiters == Imp_get_available_recruiters(start, IndividualMinutes)
    IN  IF ~Imp_is_applicant_available(applicant_id, start, IndividualMinutes) THEN NoOption
        ELSE IF Imp_has_scheduling_conflict(applicant_id, start, IndividualMinutes)
             THEN NoOption
        ELSE IF Len(available_rooms) = 0 \/ Len(available_recruiters) = 0 THEN NoOption
        ELSE [ok |-> TRUE,
              option |-> [time_slot |-> time_slot,
                          room |-> available_rooms[1],
                          recruiter |-> available_recruiters[1]]]

\* The slot loop with "return True" in its body: the first slot, in grid order,
\* at which the body reaches the end.
Imp_first_option(cand) ==
    LET ok == {i \in DOMAIN cand : cand[i].ok}
    IN  IF ok = {} THEN [found |-> FALSE]
        ELSE LET first == CHOOSE i \in ok : \A j \in ok : i <= j
             IN [found |-> TRUE, best_option |-> cand[first].option]

(***************************************************************************)
(* ImprovedScheduler: committing an interview                              *)
(***************************************************************************)
\* Committing a group with the group flags set to the new group's applicants.
Imp_create_group_interview_resetting(option) ==
    LET start == option.time_slot.start
        group_slot == TimeSlot(start, start + GroupMinutes)
    IN  /\ scheduled_interviews' = Append(scheduled_interviews,
               Interview("group", group_slot, option.room,
                         option.applicants, option.recruiters))
        /\ room_schedule' = room_schedule \cup {<<start, option.room>>}
        /\ recruiter_schedule' = recruiter_schedule
               \cup {<<start, r>> : r \in Range(option.recruiters)}
        /\ applicant_group_scheduled' = Range(option.applicants)
        /\ UNCHANGED applicant_individual_scheduled

Imp_create_group_interview(option) ==
    LET start == option.time_slot.start
        group_slot == TimeSlot(start, start + GroupMinutes)
    IN  /\ scheduled_interviews' = Append(scheduled_interviews,
               Interview("group", group_slot, option.room,
                         option.applicants, option.recruiters))
        /\ room_schedule' = room_schedule \cup {<<start, option.room>>}
        /\ recruiter_schedule' = recruiter_schedule
               \cup {<<start, r>> : r \in Range(option.recruiters)}
        /\ applicant_group_scheduled' =
               applicant_group_scheduled \cup Range(option.applicants)
        /\ UNCHANGED applicant_individual_scheduled

Imp_create_individual_interview(applicant_id, option) ==
    LET start == option.time_slot.start
        individual_slot == TimeSlot(start, start + IndividualMinutes)
    IN  /\ scheduled_interviews' = Append(scheduled_interviews,
               Interview("individual", individual_slot, option.room,
                         <<applicant_id>>, <<option.recruiter>>))
        /\ room_schedule' = room_schedule \cup {<<start, option.room>>}
        /\ recruiter_schedule' = recruiter_schedule \cup {<<start, option.recruiter>>}
        /\ applicant_individual_scheduled' =
               applicant_individual_scheduled \cup {applicant_id}
        /\ UNCHANGED applicant_group_scheduled

schedule_state == <<scheduled_interviews, applicant_group_scheduled,
                    applicant_individual_scheduled, room_schedule, recruiter_schedule>>

Imp_try_schedule_group_flexible(applicant_id) ==
    Imp_best_option([i \in 1..Len(time_slots) |->
        Imp_group_flexible_candidate(applicant_id, time_slots[i])])

Imp_try_schedule_individual_flexible(applicant_id) ==
    Imp_best_option([i \in 1..Len(time_slots) |->
        Imp_individual_flexible_candidate(applicant_id, time_slots[i])])

Imp_schedule_applicant_group_interview(applicant_id) ==
    Imp_first_option([i \in 1..Len(time_slots) |->
        Imp_group_greedy_candidate(applicant_id, time_slots[i])])

Imp_schedule_applicant_individual_interview(applicant_id) ==
    Imp_first_option([i \in 1..Len(time_slots) |->
        Imp_individual_greedy_candidate(applicant_id, time_slots[i])])

(***************************************************************************)
(* ImprovedScheduler: spacing violations and the score                     *)
(***************************************************************************)
RECURSIVE Flatten(_)
Flatten(seqs) ==
    IF seqs = <<>> THEN <<>> ELSE Head(seqs) \o Flatten(Tail(seqs))

\* Keys of a dict filled in the order of s: first occurrences, in order.
RECURSIVE FirstOccurrences(_, _)
FirstOccurrences(s, acc) ==
    IF s = <<>> THEN acc
    ELSE FirstOccurrences(Tail(s),
            IF Head(s) \in Range(acc) THEN acc ELSE Append(acc, Head(s)))

Imp_applicant_interviews(app_id) ==
    LET Has(interview) == app_id \in Range(interview.applicants)
    IN SelectSeq(scheduled_interviews, Has)

\* The spacing violations of one applicant measured between start times.
Imp_violations_by_start(app_id) ==
    LET interviews == Imp_applicant_interviews(app_id)
        sorted_interviews ==
            Values(SortPairs([i \in 1..Len(interviews) |->
                                <<interviews[i].time_slot.start, interviews[i]>>]))
        Gap(i) == sorted_interviews[i + 1].time_slot.start
                  - sorted_interviews[i].time_slot.start
        Violates(i) == Gap(i) > ProximityMinutes
        idx == IF Len(interviews) >= 2
               THEN SelectSeq([i \in 1..(Len(interviews) - 1) |-> i], Violates)
               ELSE <<>>
    IN [j \in 1..Len(idx) |->
            [applicant_id |-> app_id,
             gap_minutes |-> Gap(idx[j]),
             first_interview |-> sorted_interviews[idx[j]],
             second_interview |-> sorted_interviews[idx[j] + 1]]]

\* The spacing violations of one applicant, listed once for each of the two
\* interviews of a violating pair.
Imp_violations_per_interview(app_id) ==
    LET interviews == Imp_applicant_interviews(app_id)
        sorted_interviews ==
            Values(SortPairs([i \in 1..Len(interviews) |->
                                <<interviews[i].time_slot.start, interviews[i]>>]))
        Gap(i) == sorted_interviews[i + 1].time_slot.start
                  - sorted_interviews[i].time_slot.end
        Violates(i) == Gap(i) > ProximityMinutes
        idx == IF Len(interviews) >= 2
               THEN SelectSeq([i \in 1..(Len(interviews) - 1) |-> i], Violates)
               ELSE <<>>
        listed == [j \in 1..Len(idx) |->
                      [applicant_id |-> app_id,
                       gap_minutes |-> Gap(idx[j]),
                       first_interview |-> sorted_interviews[idx[j]],
                       second_interview |-> sorted_interviews[idx[j] + 1]]]
    IN listed \o listed

Imp_violations_of(app_id) ==
    LET interviews == Imp_applicant_interviews(app_id)
        sorted_interviews ==
            Values(SortPairs([i \in 1..Len(interviews) |->
                                <<interviews[i].time_slot.start, interviews[i]>>]))
        Gap(i) == sorted_interviews[i + 1].time_slot.start
                  - sorted_interviews[i].time_slot.end
        Violates(i) == Gap(i) > ProximityMinutes
        idx == IF Len(interviews) >= 2
               THEN SelectSeq([i \in 1..(Len(interviews) - 1) |-> i], Violates)
               ELSE <<>>
    IN [j \in 1..Len(idx) |->
            [applicant_id |-> app_id,
             gap_minutes |-> Gap(idx[j]),
             first_interview |-> sorted_interviews[idx[j]],
             second_interview |-> sorted_interviews[idx[j] + 1]]]

Imp_find_spacing_violations ==
    LET app_ids == FirstOccurrences(
            Flatten([k \in 1..Len(scheduled_interviews) |->
                        scheduled_interviews[k].applicants]), <<>>)
    IN Flatten([j \in 1..Len(app_ids) |-> Imp_violations_of(app_ids[j])])

Imp_evaluate_schedule ==
    LET fully_scheduled ==
            Cardinality(applicant_group_scheduled \cap applicant_individual_scheduled)
        total_interviews == Len(scheduled_interviews)
        violations == Len(Imp_find_spacing_violations)
    IN fully_scheduled * 100 + total_interviews * 10 - violations * 50

\* max(violations, key=gap_minutes): the first violation with the largest gap
RECURSIVE MaxByGap(_, _)
MaxByGap(violations, best) ==
    IF violations = <<>> THEN best
    ELSE MaxByGap(Tail(violations),
            IF Head(violations).gap_minutes > best.gap_minutes
            THEN Head(violations) ELSE best)

\* The placeholder of the source: no rescheduling, no effect.
Imp_fix_spacing_violation(violation) == FALSE

Imp_improve_spacing_iteration ==
    LET violations == Imp_find_spacing_violations
    IN IF violations = <<>> THEN FALSE
       ELSE Imp_fix_spacing_violation(MaxByGap(Tail(violations), Head(violations)))

(***************************************************************************)
(* Loaded data: the inputs of a run                                        *)
(***************************************************************************)
Evening1 == 17 * 60
Evening2 == DayMinutes + 17 * 60

\* Applicants and rooms are loaded with whole-hour intervals, recruiters with
\* HH:MM-HH:MM intervals.
ApplicantOptions ==
    [hour    |-> << TimeSlot(Evening1, Evening1 + 60) >>,
     late    |-> << TimeSlot(Evening1 + 60, Evening1 + 120) >>,
     long    |-> << TimeSlot(Evening1, Evening1 + 180) >>,
     twodays |-> << TimeSlot(Evening1, Evening1 + 60),
                    TimeSlot(Evening2, Evening2 + 60) >>,
     never   |-> << >>]

ApplicantOptionPairs ==
    { <<"hour", "late">>, <<"long", "twodays">>, <<"twodays", "hour">>,
      <<"late", "never">> }

RecruiterOptions ==
    [full |-> << TimeSlot(Evening1, Evening1 + 180),
                 TimeSlot(Evening2, Evening2 + 60) >>,
     head |-> << TimeSlot(Evening1, Evening1 + 20),
                 TimeSlot(Evening2, Evening2 + 40) >>]

RoomOptions ==
    [full  |-> << TimeSlot(Evening1, Evening1 + 180),
                  TimeSlot(Evening2, Evening2 + 60) >>,
     first |-> << TimeSlot(Evening1, Evening1 + 60) >>]

TeamNames == <<"Astra", "Juvo", "All", "Infinitum", "Terra">>

\* The first k entities get option p[1], the others option p[2].
SplitAvailability(i, k, options, p) ==
    IF i <= k THEN options[p[1]] ELSE options[p[2]]

InitData ==
    /\ \E k \in 0..NApplicants, p \in ApplicantOptionPairs :
           applicants = [i \in 1..NApplicants |->
               [availability |-> SplitAvailability(i, k, ApplicantOptions, p),
                teams |-> <<TeamNames[(i % 2) + 1]>>]]
    /\ \E k \in 0..NRecruiters :
           recruiters = [i \in 1..NRecruiters |->
               [availability |->
                    SplitAvailability(i, k, RecruiterOptions, <<"full", "head">>),
                team |-> TeamNames[((i - 1) % Len(TeamNames)) + 1]]]
    /\ \E k \in 1..NRooms :
           rooms = [i \in 1..NRooms |->
               [availability |->
                    SplitAvailability(i, k, RoomOptions, <<"full", "first">>)]]

None == [strategy |-> "None"]

NoSolution == [group |-> {}, individual |-> {}]

InitState ==
    /\ scheduled_interviews = <<>>
    /\ applicant_group_scheduled = {}
    /\ applicant_individual_scheduled = {}
    /\ room_schedule = {}
    /\ recruiter_schedule = {}
    /\ unscheduled_applicants = <<>>
    /\ passes = <<>>
    /\ strategy = 1
    /\ applicant_list = <<>>
    /\ pos = 1
    /\ group_scheduled = FALSE
    /\ scheduled_completely = 0
    /\ iteration = 0
    /\ improvements = 0
    /\ success = FALSE
    /\ best_result = None
    /\ best_score = -1
    /\ ret = "running"
    /\ solution = NoSolution
    /\ slot_pos = 1
    /\ room_pos = 1
    /\ remaining_applicants = {}

InitImproved ==
    /\ scheduler = "improved"
    /\ has_ortools = FALSE
    /\ InitData
    /\ InitState
    /\ pc = "strategies"

(***************************************************************************)
(* ImprovedScheduler: the run                                              *)
(***************************************************************************)
strategies == <<"optimized_two_phase", "improved_greedy">>

\* applicant_list.sort(key=len(availability)): stable, fewest intervals first
Imp_sort_by_availability(applicant_ids) ==
    Values(SortPairs([i \in 1..Len(applicant_ids) |->
        <<Len(applicants[applicant_ids[i]].availability), applicant_ids[i]>>]))

Reverse(s) == [i \in 1..Len(s) |-> s[Len(s) + 1 - i]]

Rotate(s, k) == [i \in 1..Len(s) |-> s[((i - 1 + k) % Len(s)) + 1]]

\* The outcomes of random.shuffle the model draws from.
ShuffleOutcomes(s) ==
    IF s = <<>> THEN {s} ELSE {s, Reverse(s), Rotate(s, Len(s) \div 2)}

\* A reset that leaves the occupancy maps as the previous strategy left them.
Imp_reset_interviews_only ==
    /\ scheduled_interviews' = <<>>
    /\ applicant_group_scheduled' = {}
    /\ applicant_individual_scheduled' = {}
    /\ UNCHANGED <<room_schedule, recruiter_schedule>>

Imp_reset_scheduling_state ==
    /\ scheduled_interviews' = <<>>
    /\ applicant_group_scheduled' = {}
    /\ applicant_individual_scheduled' = {}
    /\ room_schedule' = {}
    /\ recruiter_schedule' = {}

loop_locals == <<applicant_list, pos, group_scheduled, scheduled_completely>>
selector == <<strategy, best_result, best_score, ret>>
phase2_locals == <<iteration, improvements>>

\* schedule_interviews: reset, then enter _optimized_scheduling / phase 1
ImpStartOptimized ==
    /\ scheduler = "improved" /\ pc = "strategies"
    /\ strategy <= Len(strategies) /\ strategies[strategy] = "optimized_two_phase"
    /\ Imp_reset_scheduling_state
    /\ applicant_list' = Imp_sort_by_availability(Keys(applicants))
    /\ pos' = 1 /\ group_scheduled' = FALSE /\ scheduled_completely' = 0
    /\ pc' = "phase1_group"
    /\ UNCHANGED <<data, solver_locals, unscheduled_applicants, selector, phase2_locals, success>>

\* schedule_interviews: reset, then enter _improved_greedy_schedule
ImpStartGreedy ==
    /\ scheduler = "improved" /\ pc = "strategies"
    /\ strategy <= Len(strategies) /\ strategies[strategy] = "improved_greedy"
    /\ Imp_reset_scheduling_state
    /\ applicant_list' \in ShuffleOutcomes(Keys(applicants))
    /\ pos' = 1 /\ group_scheduled' = FALSE /\ scheduled_completely' = 0
    /\ pc' = "greedy_group"
    /\ UNCHANGED <<data, solver_locals, unscheduled_applicants, selector, phase2_locals, success>>

\* The group half of a loop body: attempt only if not yet in a group.
Imp_group_step(r) ==
    LET applicant_id == applicant_list[pos]
    IN  IF applicant_id \notin applicant_group_scheduled /\ r.found
        THEN /\ Imp_create_group_interview(r.best_option)
             /\ group_scheduled' = TRUE
        ELSE /\ UNCHANGED schedule_state
             /\ group_scheduled' = FALSE

\* The individual half of a loop body, and the loop's counters.
Imp_individual_step(r) ==
    LET applicant_id == applicant_list[pos]
        individual_scheduled ==
            applicant_id \notin applicant_individual_scheduled /\ r.found
    IN  /\ IF individual_scheduled
           THEN Imp_create_individual_interview(applicant_id, r.best_option)
           ELSE UNCHANGED schedule_state
        /\ scheduled_completely' =
              IF group_scheduled /\ individual_scheduled
              THEN scheduled_completely + 1 ELSE scheduled_completely
        /\ group_scheduled' = FALSE
        /\ pos' = pos + 1

ImpPhase1Group ==
    /\ scheduler = "improved" /\ pc = "phase1_group" /\ pos <= Len(applicant_list)
    /\ Imp_group_step(Imp_try_schedule_group_flexible(applicant_list[pos]))
    /\ pc' = "phase1_individual"
    /\ UNCHANGED <<data, solver_locals, unscheduled_applicants, selector, phase2_locals, success,
                   applicant_list, pos, scheduled_completely>>

ImpPhase1Individual ==
    /\ scheduler = "improved" /\ pc = "phase1_individual"
    /\ Imp_individual_step(Imp_try_schedule_individual_flexible(applicant_list[pos]))
    /\ pc' = "phase1_group"
    /\ UNCHANGED <<data, solver_locals, unscheduled_applicants, selector, phase2_locals, success,
                   applicant_list>>

\* End of phase 1: _phase2_optimize_spacing is entered.
ImpPhase2Start ==
    /\ scheduler = "improved" /\ pc = "phase1_group" /\ pos > Len(applicant_list)
    /\ iteration' = 0 /\ improvements' = 0
    /\ pc' = "phase2"
    /\ UNCHANGED <<data, solver_locals, schedule_state, unscheduled_applicants, selector, success,
                   loop_locals>>

\* The repair loop with the two-phase strategy reporting success as the
\* shuffled strategy does (scheduled_completely > 0).
ImpPhase2IterationCompleteOnly ==
    /\ scheduler = "improved" /\ pc = "phase2"
    /\ IF iteration < MaxIterations /\ Imp_improve_spacing_iteration
       THEN /\ improvements' = improvements + 1
            /\ iteration' = iteration + 1
            /\ UNCHANGED <<pc, success>>
       ELSE /\ success' = (scheduled_completely > 0)
            /\ pc' = "evaluate"
            /\ UNCHANGED phase2_locals
    /\ UNCHANGED <<data, solver_locals, schedule_state, unscheduled_applicants, selector, loop_locals>>

\* The repair loop failing the run when a violation is left unrepaired.
ImpPhase2IterationStrict ==
    /\ scheduler = "improved" /\ pc = "phase2"
    /\ IF iteration < MaxIterations /\ Imp_improve_spacing_iteration
       THEN /\ improvements' = improvements + 1
            /\ iteration' = iteration + 1
            /\ UNCHANGED <<pc, success>>
       ELSE /\ success' = (Len(scheduled_interviews) > 0
                           /\ Imp_find_spacing_violations = <<>>)
            /\ pc' = "evaluate"
            /\ UNCHANGED phase2_locals
    /\ UNCHANGED <<data, solver_locals, schedule_state, unscheduled_applicants, selector, loop_locals>>

\* One pass of the repair loop; leaving it ends _optimized_scheduling.
ImpPhase2Iteration ==
    /\ scheduler = "improved" /\ pc = "phase2"
    /\ IF iteration < MaxIterations /\ Imp_improve_spacing_iteration
       THEN /\ improvements' = improvements + 1
            /\ iteration' = iteration + 1
            /\ UNCHANGED <<pc, success>>
       ELSE /\ success' = (Len(scheduled_interviews) > 0)
            /\ pc' = "evaluate"
            /\ UNCHANGED phase2_locals
    /\ UNCHANGED <<data, solver_locals, schedule_state, unscheduled_applicants, selector, loop_locals>>

ImpGreedyGroup ==
    /\ scheduler = "improved" /\ pc = "greedy_group" /\ pos <= Len(applicant_list)
    /\ Imp_group_step(Imp_schedule_applicant_group_interview(applicant_list[pos]))
    /\ pc' = "greedy_individual"
    /\ UNCHANGED <<data, solver_locals, unscheduled_applicants, selector, phase2_locals, success,
                   applicant_list, pos, scheduled_completely>>

ImpGreedyIndividual ==
    /\ scheduler = "improved" /\ pc = "greedy_individual"
    /\ Imp_individual_step(Imp_schedule_applicant_individual_interview(applicant_list[pos]))
    /\ pc' = "greedy_group"
    /\ UNCHANGED <<data, solver_locals, unscheduled_applicants, selector, phase2_locals, success,
                   applicant_list>>

\* return scheduled_completely > 0
ImpGreedyReturn ==
    /\ scheduler = "improved" /\ pc = "greedy_group" /\ pos > Len(applicant_list)
    /\ success' = (scheduled_completely > 0)
    /\ pc' = "evaluate"
    /\ UNCHANGED <<data, solver_locals, schedule_state, unscheduled_applicants, selector,
                   phase2_locals, loop_locals>>

\* The comparison with "score >= best_score": the later of two equal scores wins.
ImpEvaluateKeepLast ==
    /\ scheduler = "improved" /\ pc = "evaluate"
    /\ LET score == Imp_evaluate_schedule
       IN IF success /\ score >= best_score
          THEN /\ best_score' = score
               /\ best_result' = [interviews |-> scheduled_interviews,
                                  group_scheduled |-> applicant_group_scheduled,
                                  individual_scheduled |-> applicant_individual_scheduled,
                                  strategy |-> strategies[strategy]]
          ELSE UNCHANGED <<best_score, best_result>>
    /\ strategy' = strategy + 1
    /\ pc' = "strategies"
    /\ UNCHANGED <<data, solver_locals, schedule_state, unscheduled_applicants, ret,
                   phase2_locals, loop_locals, success>>

\* Scoring with _find_spacing_violations sorting scheduled_interviews in place.
ImpEvaluateInPlace ==
    /\ scheduler = "improved" /\ pc = "evaluate"
    /\ LET score == Imp_evaluate_schedule
       IN IF success /\ score > best_score
          THEN /\ best_score' = score
               /\ best_result' = [interviews |-> scheduled_interviews,
                                  group_scheduled |-> applicant_group_scheduled,
                                  individual_scheduled |-> applicant_individual_scheduled,
                                  strategy |-> strategies[strategy]]
          ELSE UNCHANGED <<best_score, best_result>>
    /\ scheduled_interviews' =
           Values(SortPairs([i \in 1..Len(scheduled_interviews) |->
               <<scheduled_interviews[i].time_slot.start, scheduled_interviews[i]>>]))
    /\ strategy' = strategy + 1
    /\ pc' = "strategies"
    /\ UNCHANGED <<data, solver_locals, applicant_group_scheduled,
                   applicant_individual_scheduled, room_schedule, recruiter_schedule,
                   unscheduled_applicants, ret, phase2_locals, loop_locals, success>>

\* if success: score = _evaluate_schedule(); if score > best_score: keep a copy
ImpEvaluate ==
    /\ scheduler = "improved" /\ pc = "evaluate"
    /\ LET score == Imp_evaluate_schedule
       IN IF success /\ score > best_score
          THEN /\ best_score' = score
               /\ best_result' = [interviews |-> scheduled_interviews,
                                  group_scheduled |-> applicant_group_scheduled,
                                  individual_scheduled |-> applicant_individual_scheduled,
                                  strategy |-> strategies[strategy]]
          ELSE UNCHANGED <<best_score, best_result>>
    /\ strategy' = strategy + 1
    /\ pc' = "strategies"
    /\ UNCHANGED <<data, solver_locals, schedule_state, unscheduled_applicants, ret,
                   phase2_locals, loop_locals, success>>

\* After the last strategy: apply the best result, or fail.
ImpApplyBest ==
    /\ scheduler = "improved" /\ pc = "strategies" /\ strategy > Len(strategies)
    /\ IF best_result # None
       THEN /\ scheduled_interviews' = best_result.interviews
            /\ applicant_group_scheduled' = best_result.group_scheduled
            /\ applicant_individual_scheduled' = best_result.individual_scheduled
            /\ ret' = "True"
       ELSE /\ UNCHANGED <<scheduled_interviews, applicant_group_scheduled,
                           applicant_individual_scheduled>>
            /\ ret' = "False"
    /\ pc' = "done"
    /\ UNCHANGED <<data, solver_locals, room_schedule, recruiter_schedule, unscheduled_applicants,
                   strategy, best_result, best_score, phase2_locals, loop_locals, success>>

NextImproved ==
    \/ ImpStartOptimized
    \/ ImpPhase1Group
    \/ ImpPhase1Individual
    \/ ImpPhase2Start
    \/ ImpPhase2Iteration
    \/ ImpStartGreedy
    \/ ImpGreedyGroup
    \/ ImpGreedyIndividual
    \/ ImpGreedyReturn
    \/ ImpEvaluate
    \/ ImpApplyBest

SpecImproved == InitImproved /\ [][NextImproved]_vars

(***************************************************************************)
(* ImprovedScheduler on small data sets                                    *)
(***************************************************************************)
\* _generate_unscheduled_report: the applicants written to the report, those
\* not flagged for both interviews, in dict order.
Imp_unscheduled_report ==
    LET NotFully(app_id) ==
            ~(/\ app_id \in applicant_group_scheduled
              /\ app_id \in applicant_individual_scheduled)
    IN SelectSeq(Keys(applicants), NotFully)

\* Grid starts on the first evening at which the small data sets are placed.
WindowStarts == {Evening1 + 20, Evening1 + 60, Evening1 + 120}

Person(availability, team) == [availability |-> availability, teams |-> <<team>>]

Recruiter(availability, team) == [availability |-> availability, team |-> team]

Room(availability) == [availability |-> availability]

\* Rooms are loaded with whole-hour intervals: the hour that holds time t.
HourOf(t) == TimeSlot(t - (t % 60), t - (t % 60) + 60)

\* Two applicants, the second available for the later half of the first one's
\* 40 minutes; one room for the hour that holds them; one recruiter for the 40
\* minutes and k - 1 recruiters for the later half.
InitContended ==
    \E t \in WindowStarts, k \in 1..3 :
        /\ applicants = << Person(<<TimeSlot(t, t + 40)>>, "Astra"),
                           Person(<<TimeSlot(t + 20, t + 40)>>, "Juvo") >>
        /\ recruiters = [i \in 1..k |->
               Recruiter(<<TimeSlot(IF i = 1 THEN t ELSE t + 20, t + 40)>>,
                         TeamNames[i])]
        /\ rooms = << Room(<<HourOf(t)>>) >>

\* 1 room, 4 recruiters (two from each of two teams) and 5 applicants who are
\* all available for the same single 40-minute window; the recruiters are
\* available for the window and the room for the hour that holds it, or they
\* are available for the whole evening.
InitOneWindow ==
    \E t \in WindowStarts, recruiters_wide \in BOOLEAN, room_wide \in BOOLEAN :
        LET window == <<TimeSlot(t, t + GroupMinutes)>>
            evening == <<TimeSlot(Evening1, Evening1 + 180)>>
        IN /\ applicants = [i \in 1..5 |->
                  Person(window, IF i % 2 = 1 THEN "Astra" ELSE "Juvo")]
           /\ recruiters = [i \in 1..4 |->
                  Recruiter(IF recruiters_wide THEN evening ELSE window,
                            IF i <= 2 THEN "Astra" ELSE "Juvo")]
           /\ rooms = << Room(IF room_wide THEN evening ELSE <<HourOf(t)>>) >>

\* Two applicants with overlapping, not identical, 40-minute windows; the
\* recruiters are available for the 20 minutes the windows share; one room is
\* open for the hour that holds them; a second room, if any, is open on the
\* second evening only.
InitSoleRoom ==
    \E t \in WindowStarts, k \in 1..2, second_room \in BOOLEAN :
        /\ applicants = << Person(<<TimeSlot(t - 20, t + 20)>>, "Astra"),
                           Person(<<TimeSlot(t, t + 40)>>, "Juvo") >>
        /\ recruiters = [i \in 1..k |->
               Recruiter(<<TimeSlot(t, t + 20)>>, TeamNames[i])]
        /\ rooms = IF second_room
                   THEN << Room(<<HourOf(t)>>),
                           Room(<<TimeSlot(Evening2, Evening2 + 60)>>) >>
                   ELSE << Room(<<HourOf(t)>>) >>

\* Five applicants: four available for one 40-minute window only, at 19:00,
\* and one available for the window, for 20 minutes two hours before it and
\* for 20 minutes an hour after it; k recruiters and 1 room for the evening.
InitSpacing ==
    \E k \in 2..4 :
        LET t == Evening1 + 120
            window == TimeSlot(t, t + GroupMinutes)
            evening == <<TimeSlot(Evening1, Evening1 + 240)>>
        IN /\ applicants = [i \in 1..5 |->
                  IF i = 1
                  THEN Person(<<TimeSlot(t - 120, t - 100), window,
                                TimeSlot(t + 100, t + 120)>>, "Astra")
                  ELSE Person(<<window>>, "Juvo")]
           /\ recruiters = [i \in 1..k |-> Recruiter(evening, TeamNames[i])]
           /\ rooms = << Room(evening) >>

InitImprovedSmall ==
    /\ scheduler = "improved"
    /\ has_ortools = FALSE
    /\ InitContended \/ InitOneWindow \/ InitSoleRoom \/ InitSpacing
    /\ InitState
    /\ pc = "strategies"

SpecImprovedSmall == InitImprovedSmall /\ [][NextImproved]_vars

\* schedule_interviews runs to its return: no step of it waits on anything.
SpecImprovedSmallFair == SpecImprovedSmall /\ WF_vars(NextImproved)

(***************************************************************************)
(* SimpleScheduler: constraint evaluator                                   *)
(***************************************************************************)
Simple_is_applicant_available(applicant_id, start_time, duration_minutes) ==
    Contains(applicants[applicant_id].availability, start_time, duration_minutes)

Simple_is_recruiter_available(recruiter_id, start_time, duration_minutes) ==
    Contains(recruiters[recruiter_id].availability, start_time, duration_minutes)

Simple_is_room_available(room_id, start_time, duration_minutes) ==
    Contains(rooms[room_id].availability, start_time, duration_minutes)

Simple_recruiter_unoccupied(recruiter_id, start_time) ==
    <<start_time, recruiter_id>> \notin recruiter_schedule

Simple_room_unoccupied(room_id, start_time) ==
    <<start_time, room_id>> \notin room_schedule

Simple_get_available_recruiters(start_time, duration) ==
    LET Free(recruiter_id) ==
            /\ Simple_recruiter_unoccupied(recruiter_id, start_time)
            /\ Simple_is_recruiter_available(recruiter_id, start_time, duration)
    IN SelectSeq(Keys(recruiters), Free)

(***************************************************************************)
(* SimpleScheduler: solver path                                            *)
(***************************************************************************)
SolverMaxApplicants == 50
SolverMaxRooms == 10

solver_applicant_list == Take(Keys(applicants), SolverMaxApplicants)
solver_rooms == Take(Keys(rooms), SolverMaxRooms)

\* A variable is named <<applicant, slot index, room>>; a solution is the set of
\* group variables and the set of individual variables with value 1.
SumOver(ones, applicant_ids, slot_ids, room_ids) ==
    Cardinality({v \in ones : v[1] \in applicant_ids /\ v[2] \in slot_ids
                              /\ v[3] \in room_ids})

\* The constraints _try_ortools_scheduling adds to its model.
Simple_model_satisfied(sol) ==
    LET apps == Range(solver_applicant_list)
        slots == 1..Len(time_slots)
        rms == Range(solver_rooms)
    IN  /\ \A v \in sol.group \cup sol.individual :
               v[1] \in apps /\ v[2] \in slots /\ v[3] \in rms
        /\ \A a \in apps : SumOver(sol.group, {a}, slots, rms) = 1
        /\ \A a \in apps : SumOver(sol.individual, {a}, slots, rms) = 1
        /\ \A i \in slots, room_id \in rms :
               SumOver(sol.group, apps, {i}, {room_id})
               + SumOver(sol.individual, apps, {i}, {room_id}) <= 1

\* The assignments the model draws the solver's answer from: the k-th applicant
\* takes the cells number s + d(k-1) (group) and t + d(k-1) (individual) of the
\* grid of (slot, room) cells, counted slot by slot.
SolverOffsets == 2
SolverStrides == {1, 2}

Cell(c) ==
    LET nr == Len(solver_rooms)
        m == Len(time_slots) * nr
    IN <<((c % m) \div nr) + 1, solver_rooms[((c % m) % nr) + 1]>>

SolverCandidates ==
    IF solver_rooms = <<>> THEN {NoSolution}
    ELSE { [group |-> {<<solver_applicant_list[k]>> \o Cell(s + d * (k - 1))
                         : k \in 1..Len(solver_applicant_list)},
            individual |-> {<<solver_applicant_list[k]>> \o Cell(t + d * (k - 1))
                         : k \in 1..Len(solver_applicant_list)}]
           : s \in 0..(SolverOffsets - 1), t \in 0..(SolverOffsets - 1),
             d \in SolverStrides }

\* The (slot, room) at which the extraction loops find a variable of the
\* applicant set: the model gives each applicant exactly one.
Simple_extracted_cell(ones, applicant_id) ==
    LET v == CHOOSE v \in ones : v[1] = applicant_id
    IN [time_slot |-> time_slots[v[2]], room |-> v[3]]

(***************************************************************************)
(* SimpleScheduler: the run                                                *)
(***************************************************************************)
improved_locals == <<strategy, group_scheduled, scheduled_completely, iteration,
                     improvements, success, best_result, best_score>>

\* HAS_ORTOOLS and the solver returns OPTIMAL or FEASIBLE
SimpleSolve ==
    /\ scheduler = "simple" /\ pc = "schedule_interviews" /\ has_ortools
    /\ \E sol \in SolverCandidates :
           /\ Simple_model_satisfied(sol)
           /\ solution' = sol
    /\ applicant_list' = solver_applicant_list
    /\ pos' = 1
    /\ pc' = "extract_group"
    /\ UNCHANGED <<data, schedule_state, unscheduled_applicants, improved_locals, ret,
                   slot_pos, room_pos, remaining_applicants, passes>>

\* Entering _greedy_schedule and _schedule_group_interviews_greedy.
Simple_enter_greedy ==
    /\ applicant_list' = Imp_sort_by_availability(Keys(applicants))
    /\ remaining_applicants' = Range(Keys(applicants))
    /\ slot_pos' = 1 /\ room_pos' = 1
    /\ pc' = "greedy_groups"
    /\ UNCHANGED <<data, schedule_state, unscheduled_applicants, improved_locals, ret,
                   solution, passes, pos>>

\* HAS_ORTOOLS and the solver returns another status within its time budget
SimpleSolveFails ==
    /\ scheduler = "simple" /\ pc = "schedule_interviews" /\ has_ortools
    /\ Simple_enter_greedy

\* not HAS_ORTOOLS
SimpleNoSolver ==
    /\ scheduler = "simple" /\ pc = "schedule_interviews" /\ ~has_ortools
    /\ Simple_enter_greedy

\* _extract_simple_solution, the group half of the loop body
SimpleExtractGroup ==
    /\ scheduler = "simple" /\ pc = "extract_group" /\ pos <= Len(applicant_list)
    /\ LET applicant_id == applicant_list[pos]
           cell == Simple_extracted_cell(solution.group, applicant_id)
           start == cell.time_slot.start
           available_recruiters ==
               Take(Simple_get_available_recruiters(start, GroupMinutes), GroupRecruiters)
       IN /\ scheduled_interviews' = Append(scheduled_interviews,
                 Interview("group", TimeSlot(start, start + GroupMinutes), cell.room,
                           <<applicant_id>>, available_recruiters))
          /\ applicant_group_scheduled' = applicant_group_scheduled \cup {applicant_id}
          /\ room_schedule' = room_schedule \cup {<<start, cell.room>>}
          /\ recruiter_schedule' = recruiter_schedule
                 \cup {<<start, r>> : r \in Range(available_recruiters)}
    /\ pc' = "extract_individual"
    /\ UNCHANGED <<data, applicant_individual_scheduled, unscheduled_applicants,
                   improved_locals, ret, solver_locals, applicant_list, pos>>

\* _extract_simple_solution, the individual half of the loop body
SimpleExtractIndividual ==
    /\ scheduler = "simple" /\ pc = "extract_individual"
    /\ LET applicant_id == applicant_list[pos]
           cell == Simple_extracted_cell(solution.individual, applicant_id)
           start == cell.time_slot.start
           available_recruiters ==
               Take(Simple_get_available_recruiters(start, IndividualMinutes), 1)
       IN IF available_recruiters # <<>>
          THEN /\ scheduled_interviews' = Append(scheduled_interviews,
                      Interview("individual", cell.time_slot, cell.room,
                                <<applicant_id>>, available_recruiters))
               /\ applicant_individual_scheduled' =
                      applicant_individual_scheduled \cup {applicant_id}
               /\ room_schedule' = room_schedule \cup {<<start, cell.room>>}
               /\ recruiter_schedule' = recruiter_schedule
                      \cup {<<start, available_recruiters[1]>>}
               /\ UNCHANGED applicant_group_scheduled
          ELSE UNCHANGED schedule_state
    /\ pos' = pos + 1
    /\ pc' = "extract_group"
    /\ UNCHANGED <<data, unscheduled_applicants, improved_locals, ret, solver_locals,
                   applicant_list>>

\* schedule_interviews going on to _greedy_schedule after a solution was
\* extracted.
SimpleSolverFallsThrough ==
    /\ scheduler = "simple" /\ pc = "extract_group" /\ pos > Len(applicant_list)
    /\ Simple_enter_greedy

\* _try_ortools_scheduling returns True, and so does schedule_interviews
SimpleSolverReturn ==
    /\ scheduler = "simple" /\ pc = "extract_group" /\ pos > Len(applicant_list)
    /\ ret' = "True"
    /\ pc' = "done"
    /\ UNCHANGED <<data, schedule_state, unscheduled_applicants, improved_locals,
                   solver_locals, applicant_list, pos>>

(***************************************************************************)
(* SimpleScheduler: greedy path                                            *)
(***************************************************************************)
\* A set of ids as a list in increasing order.
Ascending(S) ==
    [r \in 1..Cardinality(S) |->
        CHOOSE x \in S : Cardinality({y \in S : y < x}) = r - 1]

Simple_available_applicants(start_time) ==
    {applicant_id \in remaining_applicants :
        /\ applicant_id \notin applicant_group_scheduled
        /\ Simple_is_applicant_available(applicant_id, start_time, GroupMinutes)}

\* The body of the loops of _schedule_group_interviews_greedy reaches the
\* creation of an interview at slot i and room room_id.
Simple_group_body_ok(i, room_id) ==
    LET start == time_slots[i].start
    IN  /\ Simple_room_unoccupied(room_id, start)
        /\ Simple_is_room_available(room_id, start, GroupMinutes)
        /\ ~(Len(Simple_get_available_recruiters(start, GroupMinutes)) < GroupRecruiters)
        /\ ~(Cardinality(Simple_available_applicants(start)) < MinGroupSize)

\* For every slot, the rooms whose iteration creates an interview, the
\* iterations before (slot_pos, room_pos) being over.
Simple_group_scan ==
    [i \in 1..Len(time_slots) |->
        LET Creates(room_id) ==
                /\ i > slot_pos \/ (i = slot_pos /\ room_id >= room_pos)
                /\ Simple_group_body_ok(i, room_id)
        IN SelectSeq(Keys(rooms), Creates)]

\* The first iteration that creates an interview.
Simple_first_iteration(scan) ==
    LET hits == {i \in DOMAIN scan : scan[i] # <<>>}
    IN  IF hits = {} THEN [found |-> FALSE]
        ELSE LET i == CHOOSE i \in hits : \A j \in hits : i <= j
             IN [found |-> TRUE, slot |-> i, room |-> scan[i][1]]

\* available_applicants[:8]: the list is filled in the iteration order of the
\* set remaining_applicants, which the model draws from the rotations of the
\* id order.
Simple_group_applicants(start_time) ==
    LET available == Ascending(Simple_available_applicants(start_time))
    IN {Range(Take(Rotate(available, k), MaxGroupSize)) : k \in 0..(Len(available) - 1)}

\* One iteration of the loops that creates a group interview (the iterations
\* before it end in "continue").
Simple_create_group(c) ==
    /\ c.found
    /\ LET start == time_slots[c.slot].start
           room_id == c.room
           group_recruiters ==
               Take(Simple_get_available_recruiters(start, GroupMinutes), GroupRecruiters)
       IN \E S \in Simple_group_applicants(start) :
            /\ scheduled_interviews' = Append(scheduled_interviews,
                   Interview("group", TimeSlot(start, start + GroupMinutes), room_id,
                             Ascending(S), group_recruiters))
            /\ room_schedule' = room_schedule \cup {<<start, room_id>>}
            /\ recruiter_schedule' = recruiter_schedule
                   \cup {<<start, r>> : r \in Range(group_recruiters)}
            /\ applicant_group_scheduled' = applicant_group_scheduled \cup S
            /\ remaining_applicants' = remaining_applicants \ S
            /\ IF room_id < Len(rooms)
               THEN slot_pos' = c.slot /\ room_pos' = room_id + 1
               ELSE slot_pos' = c.slot + 1 /\ room_pos' = 1

SimpleGreedyGroup ==
    /\ scheduler = "simple" /\ pc = "greedy_groups"
    /\ Simple_create_group(Simple_first_iteration(Simple_group_scan))
    /\ UNCHANGED <<data, applicant_individual_scheduled, unscheduled_applicants,
                   improved_locals, ret, solution, passes, applicant_list, pos, pc>>

\* The loops end (no iteration left creates an interview, or the break on an
\* empty remaining_applicants): _schedule_individual_interviews_greedy starts.
SimpleGreedyGroupsDone ==
    /\ scheduler = "simple" /\ pc = "greedy_groups"
    /\ ~Simple_first_iteration(Simple_group_scan).found
    /\ pos' = 1
    /\ pc' = "greedy_individuals"
    /\ UNCHANGED <<data, schedule_state, unscheduled_applicants, improved_locals, ret,
                   solver_locals, applicant_list>>

Simple_team_match(recruiter_id, applicant_id) ==
    \/ recruiters[recruiter_id].team \in Range(applicants[applicant_id].teams)
    \/ recruiters[recruiter_id].team = "All"

\* One iteration of the slot loop taking the first free recruiter whatever
\* the team.
Simple_individual_candidate_any_team(applicant_id, time_slot) ==
    LET start == time_slot.start
        RoomOk(room_id) == /\ Simple_room_unoccupied(room_id, start)
                           /\ Simple_is_room_available(room_id, start, IndividualMinutes)
        free_rooms == SelectSeq(Keys(rooms), RoomOk)
        RecruiterOk(recruiter_id) ==
            /\ Simple_recruiter_unoccupied(recruiter_id, start)
            /\ Simple_is_recruiter_available(recruiter_id, start, IndividualMinutes)
        any == SelectSeq(Keys(recruiters), RecruiterOk)
    IN  IF ~Simple_is_applicant_available(applicant_id, start, IndividualMinutes)
        THEN NoOption
        ELSE IF free_rooms = <<>> THEN NoOption
        ELSE IF any = <<>> THEN NoOption
        ELSE [ok |-> TRUE,
              option |-> [time_slot |-> time_slot,
                          room |-> free_rooms[1],
                          recruiter |-> any[1]]]

\* One iteration of the slot loop of _schedule_individual_interviews_greedy.
Simple_individual_candidate(applicant_id, time_slot) ==
    LET start == time_slot.start
        RoomOk(room_id) == /\ Simple_room_unoccupied(room_id, start)
                           /\ Simple_is_room_available(room_id, start, IndividualMinutes)
        free_rooms == SelectSeq(Keys(rooms), RoomOk)
        RecruiterOk(recruiter_id) ==
            /\ Simple_recruiter_unoccupied(recruiter_id, start)
            /\ Simple_is_recruiter_available(recruiter_id, start, IndividualMinutes)
        Matching(recruiter_id) ==
            RecruiterOk(recruiter_id) /\ Simple_team_match(recruiter_id, applicant_id)
        matching == SelectSeq(Keys(recruiters), Matching)
        any == SelectSeq(Keys(recruiters), RecruiterOk)
    IN  IF ~Simple_is_applicant_available(applicant_id, start, IndividualMinutes)
        THEN NoOption
        ELSE IF free_rooms = <<>> THEN NoOption
        ELSE IF matching = <<>> /\ any = <<>> THEN NoOption
        ELSE [ok |-> TRUE,
              option |-> [time_slot |-> time_slot,
                          room |-> free_rooms[1],
                          recruiter |-> IF matching # <<>> THEN matching[1] ELSE any[1]]]

Simple_first_individual(applicant_id) ==
    Imp_first_option([i \in 1..Len(time_slots) |->
        Simple_individual_candidate(applicant_id, time_slots[i])])

\* One iteration of the applicant loop of _schedule_individual_interviews_greedy.
SimpleGreedyIndividual ==
    /\ scheduler = "simple" /\ pc = "greedy_individuals" /\ pos <= Len(applicants)
    /\ LET applicant_id == Keys(applicants)[pos]
           r == Simple_first_individual(applicant_id)
       IN IF applicant_id \notin applicant_individual_scheduled /\ r.found
          THEN LET start == r.best_option.time_slot.start
               IN /\ scheduled_interviews' = Append(scheduled_interviews,
                         Interview("individual", r.best_option.time_slot,
                                   r.best_option.room, <<applicant_id>>,
                                   <<r.best_option.recruiter>>))
                  /\ room_schedule' = room_schedule \cup {<<start, r.best_option.room>>}
                  /\ recruiter_schedule' = recruiter_schedule
                         \cup {<<start, r.best_option.recruiter>>}
                  /\ applicant_individual_scheduled' =
                         applicant_individual_scheduled \cup {applicant_id}
                  /\ UNCHANGED applicant_group_scheduled
          ELSE UNCHANGED schedule_state
    /\ pos' = pos + 1
    /\ UNCHANGED <<data, unscheduled_applicants, improved_locals, ret, solver_locals,
                   applicant_list, pc>>

\* The end of _greedy_schedule: the unscheduled list and the return value.
SimpleGreedyReturn ==
    /\ scheduler = "simple" /\ pc = "greedy_individuals" /\ pos > Len(applicants)
    /\ LET Lacks(applicant_id) ==
               \/ applicant_id \notin applicant_group_scheduled
               \/ applicant_id \notin applicant_individual_scheduled
           unscheduled == SelectSeq(Keys(applicants), Lacks)
           scheduled_count == Len(applicants) - Len(unscheduled)
       IN /\ unscheduled_applicants' = unscheduled
          /\ ret' = IF scheduled_count > 0 THEN "True" ELSE "False"
    /\ pc' = "done"
    /\ UNCHANGED <<data, schedule_state, improved_locals, solver_locals,
                   applicant_list, pos>>

InitSimple ==
    /\ scheduler = "simple"
    /\ has_ortools \in BOOLEAN
    /\ InitData
    /\ InitState
    /\ pc = "schedule_interviews"

NextSimple ==
    \/ SimpleSolve
    \/ SimpleSolveFails
    \/ SimpleNoSolver
    \/ SimpleExtractGroup
    \/ SimpleExtractIndividual
    \/ SimpleSolverReturn
    \/ SimpleGreedyGroup
    \/ SimpleGreedyGroupsDone
    \/ SimpleGreedyIndividual
    \/ SimpleGreedyReturn

SpecSimple == InitSimple /\ [][NextSimple]_vars

(***************************************************************************)
(* InterviewScheduler: the constraint model of _schedule_with_constraints  *)
(***************************************************************************)
\* A variable is named <<applicant or recruiter, slot index, room>>, the
\* indicator group_happening <<slot index, room>>; an assignment is the set of
\* variables with value 1 of each family.  group_time, individual_time and
\* time_diff are quantified where their constraints are stated.
NoAssignment ==
    [group |-> {}, individual |-> {}, recruiter_group |-> {},
     recruiter_individual |-> {}, group_happening |-> {}]

ProximitySlots == 4

diverse_teams == {"Astra", "Juvo", "Infinitum", "Terra"}

\* any(slot.start <= time_slot.start and time_slot.end <= slot.end ...)
Exact_available(availability, time_slot) ==
    \E k \in 1..Len(availability) :
        /\ availability[k].start <= time_slot.start
        /\ time_slot.end <= availability[k].end

\* The variables _add_availability_constraints forces to 0.
Exact_applicant_forced_zero(applicant_id, i) ==
    ~Exact_available(applicants[applicant_id].availability, time_slots[i])

Exact_recruiter_forced_zero(recruiter_id, i) ==
    ~Exact_available(recruiters[recruiter_id].availability, time_slots[i])

Exact_room_forced_zero(room_id, i) ==
    ~Exact_available(rooms[room_id].availability, time_slots[i])

\* Constraint 1: exactly one group and one individual interview per applicant
Exact_uniqueness(sol, apps) ==
    LET slots == 1..Len(time_slots)
        rms == Range(Keys(rooms))
    IN  \A a \in apps :
            /\ SumOver(sol.group, {a}, slots, rms) = 1
            /\ SumOver(sol.individual, {a}, slots, rms) = 1

\* Constraint 2: one interview per room per time slot
Exact_room_capacity(sol, apps) ==
    \A i \in 1..Len(time_slots), room_id \in Range(Keys(rooms)) :
        SumOver(sol.group, apps, {i}, {room_id})
        + SumOver(sol.individual, apps, {i}, {room_id}) <= 1

\* Constraint 3: _add_availability_constraints
Exact_availability(sol, apps) ==
    LET slots == 1..Len(time_slots)
        rms == Range(Keys(rooms))
    IN  /\ \A a \in apps, i \in slots :
               Exact_applicant_forced_zero(a, i) =>
                   \A room_id \in rms : /\ <<a, i, room_id>> \notin sol.group
                                        /\ <<a, i, room_id>> \notin sol.individual
        /\ \A r \in Range(Keys(recruiters)), i \in slots :
               Exact_recruiter_forced_zero(r, i) =>
                   \A room_id \in rms :
                       /\ <<r, i, room_id>> \notin sol.recruiter_group
                       /\ <<r, i, room_id>> \notin sol.recruiter_individual
        /\ \A room_id \in rms, i \in slots :
               Exact_room_forced_zero(room_id, i) =>
                   \A a \in apps : /\ <<a, i, room_id>> \notin sol.group
                                   /\ <<a, i, room_id>> \notin sol.individual

\* _add_diverse_recruiter_constraints, under group_happening
Exact_diverse_recruiters(sol, i, room_id) ==
    \A team \in diverse_teams :
        LET team_recruiters ==
                {r \in Range(Keys(recruiters)) :
                    recruiters[r].team = team \/ recruiters[r].team = "All"}
        IN team_recruiters # {} =>
               \E r \in team_recruiters : <<r, i, room_id>> \in sol.recruiter_group

\* Constraint 4: _add_group_interview_constraints (applicants_in_group is not
\* empty: the pass returns early on an empty applicants_to_schedule)
Exact_group_constraints(sol, apps, strict) ==
    \A i \in 1..Len(time_slots), room_id \in Range(Keys(rooms)) :
        LET applicants_in_group == {a \in apps : <<a, i, room_id>> \in sol.group}
            recruiters_in_group ==
                {r \in Range(Keys(recruiters)) : <<r, i, room_id>> \in sol.recruiter_group}
            group_happening == <<i, room_id>> \in sol.group_happening
        IN  /\ applicants_in_group = apps => group_happening
            /\ applicants_in_group = {} => ~group_happening
            /\ group_happening =>
                   /\ Cardinality(applicants_in_group) >= MinGroupSize
                   /\ Cardinality(applicants_in_group) <= MaxGroupSize
                   /\ Cardinality(recruiters_in_group) >= GroupRecruiters
                   /\ strict => Exact_diverse_recruiters(sol, i, room_id)

\* Constraint 5: _add_time_proximity_constraints (slot indices count from 0)
Exact_time_proximity(sol, apps) ==
    \A a \in apps :
        LET Times(ones) ==
                {t \in 0..(Len(time_slots) - 1) :
                    \A v \in ones : v[1] = a => t = v[2] - 1}
        IN \E group_time \in Times(sol.group), individual_time \in Times(sol.individual) :
               LET time_diff == individual_time - group_time
               IN time_diff >= -ProximitySlots /\ time_diff <= ProximitySlots

\* Team matching without the two constraints on the number of recruiters.
Exact_team_compatibility_only(sol, apps, strict) ==
    \A a \in apps, i \in 1..Len(time_slots), room_id \in Range(Keys(rooms)) :
        LET interview_happening == <<a, i, room_id>> \in sol.individual
            compatible_recruiters ==
                {r \in Range(Keys(recruiters)) :
                    \/ recruiters[r].team \in Range(applicants[a].teams)
                    \/ recruiters[r].team = "All"}
            recruiters_here ==
                {r \in Range(Keys(recruiters)) :
                    <<r, i, room_id>> \in sol.recruiter_individual}
        IN  (strict /\ compatible_recruiters # {} /\ interview_happening) =>
                compatible_recruiters \cap recruiters_here # {}

\* Constraint 6: _add_team_matching_constraints
Exact_team_matching(sol, apps, strict) ==
    \A a \in apps, i \in 1..Len(time_slots), room_id \in Range(Keys(rooms)) :
        LET interview_happening == <<a, i, room_id>> \in sol.individual
            compatible_recruiters ==
                {r \in Range(Keys(recruiters)) :
                    \/ recruiters[r].team \in Range(applicants[a].teams)
                    \/ recruiters[r].team = "All"}
            recruiters_here ==
                {r \in Range(Keys(recruiters)) :
                    <<r, i, room_id>> \in sol.recruiter_individual}
        IN  /\ (strict /\ compatible_recruiters # {} /\ interview_happening) =>
                   compatible_recruiters \cap recruiters_here # {}
            /\ interview_happening => Cardinality(recruiters_here) = 1
            /\ ~interview_happening => Cardinality(recruiters_here) = 0

Exact_model_satisfied(sol, applicants_to_schedule, strict) ==
    LET apps == Range(applicants_to_schedule)
    IN  /\ Exact_uniqueness(sol, apps)
        /\ Exact_room_capacity(sol, apps)
        /\ Exact_availability(sol, apps)
        /\ Exact_group_constraints(sol, apps, strict)
        /\ strict => Exact_time_proximity(sol, apps)
        /\ Exact_team_matching(sol, apps, strict)

(***************************************************************************)
(* InterviewScheduler: the solver's answer and _extract_solution           *)
(***************************************************************************)
Exact_cell(c) ==
    LET nr == Len(rooms)
        m == Len(time_slots) * nr
    IN <<((c % m) \div nr) + 1, Keys(rooms)[((c % m) % nr) + 1]>>

\* The recruiter a candidate assignment gives the individual interview of an
\* applicant at a slot: a compatible one if there is one.
Exact_candidate_recruiter(applicant_id, i) ==
    LET Usable(r) == ~Exact_recruiter_forced_zero(r, i)
        Compatible(r) ==
            /\ Usable(r)
            /\ \/ recruiters[r].team \in Range(applicants[applicant_id].teams)
               \/ recruiters[r].team = "All"
        compatible == SelectSeq(Keys(recruiters), Compatible)
        usable == SelectSeq(Keys(recruiters), Usable)
    IN  IF compatible # <<>> THEN {compatible[1]}
        ELSE IF usable # <<>> THEN {usable[1]} ELSE {}

\* The assignments the model draws the solver's answer from: the k-th applicant
\* takes the cells number s + d(k-1) (group) and t + d(k-1) (individual) of the
\* grid of (slot, room) cells, every recruiter the availability constraints
\* allow joins each group, and group_happening is 1 at the group cells or
\* nowhere.
ExactCandidates(applicants_to_schedule) ==
    LET n == Len(applicants_to_schedule)
        Candidate(s, t, d, happening) ==
            LET GroupCell(k) == Exact_cell(s + d * (k - 1))
                IndividualCell(k) == Exact_cell(t + d * (k - 1))
                group_cells == {GroupCell(k) : k \in 1..n}
            IN [group |-> {<<applicants_to_schedule[k]>> \o GroupCell(k) : k \in 1..n},
                individual |->
                    {<<applicants_to_schedule[k]>> \o IndividualCell(k) : k \in 1..n},
                recruiter_group |->
                    {v \in {<<r>> \o c : r \in Range(Keys(recruiters)), c \in group_cells} :
                        ~Exact_recruiter_forced_zero(v[1], v[2])},
                recruiter_individual |->
                    UNION {{<<r>> \o IndividualCell(k)
                              : r \in Exact_candidate_recruiter(
                                    applicants_to_schedule[k], IndividualCell(k)[1])}
                           : k \in 1..n},
                group_happening |-> IF happening THEN group_cells ELSE {}]
    IN { Candidate(s, t, d, happening) :
           s \in 0..(SolverOffsets - 1), t \in 0..(SolverOffsets - 1),
           d \in SolverStrides, happening \in BOOLEAN }

\* The first (slot, room), in the order of the extraction loops, at which a
\* variable of the applicant is 1.
Exact_first_cell(ones, applicant_id) ==
    LET mine == {v \in ones : v[1] = applicant_id}
    IN  IF mine = {} THEN [found |-> FALSE]
        ELSE LET v == CHOOSE v \in mine :
                          \A w \in mine : v[2] < w[2] \/ (v[2] = w[2] /\ v[3] <= w[3])
             IN [found |-> TRUE, i |-> v[2], room |-> v[3]]

\* _extract_solution: the loop over applicants_to_schedule from position k on.
RECURSIVE Exact_extract_from(_, _, _, _, _)
Exact_extract_from(sol, applicants_to_schedule, k, interviews, scheduled_this_round) ==
    IF k > Len(applicants_to_schedule)
    THEN [interviews |-> interviews, scheduled_this_round |-> scheduled_this_round]
    ELSE
        LET applicant_id == applicants_to_schedule[k]
            g == Exact_first_cell(sol.group, applicant_id)
            ind == Exact_first_cell(sol.individual, applicant_id)
            InGroup(a) == <<a, g.i, g.room>> \in sol.group
            RecInGroup(r) == <<r, g.i, g.room>> \in sol.recruiter_group
            RecInIndividual(r) == <<r, ind.i, ind.room>> \in sol.recruiter_individual
            group_slot == TimeSlot(time_slots[g.i].start,
                                   time_slots[g.i].start + GroupMinutes)
            exists == \E j \in 1..Len(interviews) :
                          /\ interviews[j].type = "group"
                          /\ interviews[j].time_slot.start = group_slot.start
                          /\ interviews[j].room = g.room
            with_group ==
                IF g.found /\ ~exists
                THEN Append(interviews,
                         Interview("group", group_slot, g.room,
                                   SelectSeq(applicants_to_schedule, InGroup),
                                   SelectSeq(Keys(recruiters), RecInGroup)))
                ELSE interviews
            with_individual ==
                IF ind.found
                THEN Append(with_group,
                         Interview("individual", time_slots[ind.i], ind.room,
                                   <<applicant_id>>,
                                   SelectSeq(Keys(recruiters), RecInIndividual)))
                ELSE with_group
        IN Exact_extract_from(sol, applicants_to_schedule, k + 1, with_individual,
               IF g.found /\ ind.found
               THEN Append(scheduled_this_round, applicant_id)
               ELSE scheduled_this_round)

\* "Get applicants to schedule": all of them in the strict pass, a copy of
\* unscheduled_applicants in the relaxed pass.
Exact_applicants_to_schedule(strict) ==
    IF strict THEN Keys(applicants) ELSE unscheduled_applicants

\* The record of one call of _schedule_with_constraints.
Exact_pass(strict) ==
    [strict |-> strict, applicants_to_schedule |-> Exact_applicants_to_schedule(strict)]

\* _schedule_with_constraints with the failure branch extending the unscheduled
\* list by applicants_to_schedule, in either pass.
Exact_schedule_appending_unscheduled(strict) ==
    LET applicants_to_schedule ==
            IF strict THEN Keys(applicants) ELSE unscheduled_applicants
        Extracted(sol) ==
            LET e == Exact_extract_from(sol, applicants_to_schedule, 1,
                                        scheduled_interviews, <<>>)
                Left(a) == a \notin Range(e.scheduled_this_round)
            IN [result |-> TRUE, solution |-> sol, interviews |-> e.interviews,
                unscheduled |-> SelectSeq(applicants_to_schedule, Left)]
    IN  IF applicants_to_schedule = <<>>
        THEN {[result |-> TRUE, solution |-> NoAssignment,
               interviews |-> scheduled_interviews,
               unscheduled |-> unscheduled_applicants]}
        ELSE {[result |-> FALSE, solution |-> NoAssignment,
               interviews |-> scheduled_interviews,
               unscheduled |-> unscheduled_applicants \o applicants_to_schedule]}
             \cup {Extracted(sol) :
                     sol \in {c \in ExactCandidates(applicants_to_schedule) :
                                  Exact_model_satisfied(c, applicants_to_schedule, strict)}}

\* _schedule_with_constraints with a failure branch that records nothing.
Exact_schedule_failing_silently(strict) ==
    LET applicants_to_schedule == Exact_applicants_to_schedule(strict)
        Extracted(sol) ==
            LET e == Exact_extract_from(sol, applicants_to_schedule, 1,
                                        scheduled_interviews, <<>>)
                Left(a) == a \notin Range(e.scheduled_this_round)
            IN [result |-> TRUE, solution |-> sol, interviews |-> e.interviews,
                unscheduled |-> SelectSeq(applicants_to_schedule, Left)]
    IN  IF applicants_to_schedule = <<>>
        THEN {[result |-> TRUE, solution |-> NoAssignment,
               interviews |-> scheduled_interviews,
               unscheduled |-> unscheduled_applicants]}
        ELSE {[result |-> FALSE, solution |-> NoAssignment,
               interviews |-> scheduled_interviews,
               unscheduled |-> unscheduled_applicants]}
             \cup {Extracted(sol) :
                     sol \in {c \in ExactCandidates(applicants_to_schedule) :
                                  Exact_model_satisfied(c, applicants_to_schedule, strict)}}

\* The ways a call of _schedule_with_constraints can end: its return value and
\* the lists it leaves.  The solver may fail on any model (status INFEASIBLE,
\* or UNKNOWN at the time limit); it succeeds only with a satisfying assignment.
Exact_schedule_with_constraints(strict) ==
    LET applicants_to_schedule == Exact_applicants_to_schedule(strict)
        Extracted(sol) ==
            LET e == Exact_extract_from(sol, applicants_to_schedule, 1,
                                        scheduled_interviews, <<>>)
                Left(a) == a \notin Range(e.scheduled_this_round)
            IN [result |-> TRUE, solution |-> sol, interviews |-> e.interviews,
                unscheduled |-> SelectSeq(applicants_to_schedule, Left)]
    IN  IF applicants_to_schedule = <<>>
        THEN {[result |-> TRUE, solution |-> NoAssignment,
               interviews |-> scheduled_interviews,
               unscheduled |-> unscheduled_applicants]}
        ELSE {[result |-> FALSE, solution |-> NoAssignment,
               interviews |-> scheduled_interviews,
               unscheduled |-> IF strict THEN applicants_to_schedule
                               ELSE unscheduled_applicants]}
             \cup {Extracted(sol) :
                     sol \in {c \in ExactCandidates(applicants_to_schedule) :
                                  Exact_model_satisfied(c, applicants_to_schedule, strict)}}

(***************************************************************************)
(* InterviewScheduler: the run                                             *)
(***************************************************************************)
exact_unused == <<applicant_group_scheduled, applicant_individual_scheduled,
                  room_schedule, recruiter_schedule, strategy, applicant_list, pos,
                  group_scheduled, scheduled_completely, iteration, improvements,
                  best_result, best_score, slot_pos, room_pos, remaining_applicants>>

\* not HAS_ORTOOLS
ExactNoSolver ==
    /\ scheduler = "exact" /\ pc = "schedule_interviews" /\ ~has_ortools
    /\ ret' = "False"
    /\ pc' = "done"
    /\ UNCHANGED <<data, scheduled_interviews, unscheduled_applicants, success,
                   solution, passes, exact_unused>>

\* First pass: strict scheduling
ExactStrictPass ==
    /\ scheduler = "exact" /\ pc = "schedule_interviews" /\ has_ortools
    /\ \E o \in Exact_schedule_with_constraints(TRUE) :
           /\ success' = o.result
           /\ solution' = o.solution
           /\ scheduled_interviews' = o.interviews
           /\ unscheduled_applicants' = o.unscheduled
    /\ passes' = Append(passes, Exact_pass(TRUE))
    /\ pc' = "second_pass"
    /\ UNCHANGED <<data, ret, exact_unused>>

\* The second pass run whether or not an applicant is left unscheduled.
ExactRelaxedPassAlways ==
    /\ scheduler = "exact" /\ pc = "second_pass"
    /\ \E o \in Exact_schedule_with_constraints(FALSE) :
           /\ solution' = o.solution
           /\ scheduled_interviews' = o.interviews
           /\ unscheduled_applicants' = o.unscheduled
    /\ passes' = Append(passes, Exact_pass(FALSE))
    /\ pc' = "return"
    /\ UNCHANGED <<data, ret, success, exact_unused>>

\* Second pass: relaxed scheduling for the unscheduled applicants
ExactRelaxedPass ==
    /\ scheduler = "exact" /\ pc = "second_pass"
    /\ IF unscheduled_applicants # <<>>
       THEN /\ \E o \in Exact_schedule_with_constraints(FALSE) :
                   /\ solution' = o.solution
                   /\ scheduled_interviews' = o.interviews
                   /\ unscheduled_applicants' = o.unscheduled
            /\ passes' = Append(passes, Exact_pass(FALSE))
       ELSE UNCHANGED <<solution, scheduled_interviews, unscheduled_applicants, passes>>
    /\ pc' = "return"
    /\ UNCHANGED <<data, ret, success, exact_unused>>

\* return success
ExactReturn ==
    /\ scheduler = "exact" /\ pc = "return"
    /\ ret' = IF success THEN "True" ELSE "False"
    /\ pc' = "done"
    /\ UNCHANGED <<data, scheduled_interviews, unscheduled_applicants, success,
                   solution, passes, exact_unused>>

InitExact ==
    /\ scheduler = "exact"
    /\ has_ortools \in BOOLEAN
    /\ InitData
    /\ InitState
    /\ pc = "schedule_interviews"

NextExact ==
    \/ ExactNoSolver
    \/ ExactStrictPass
    \/ ExactRelaxedPass
    \/ ExactReturn

SpecExact == InitExact /\ [][NextExact]_vars

(***************************************************************************)
(* The three schedulers together                                           *)
(***************************************************************************)
\* A single applicant is loaded, with the recruiters and rooms of InitData.
InitExactOne ==
    /\ scheduler = "exact"
    /\ has_ortools \in BOOLEAN
    /\ \E option \in {"hour", "long", "twodays"} :
           applicants = << [availability |-> ApplicantOptions[option],
                            teams |-> <<TeamNames[1]>>] >>
    /\ \E k \in 0..NRecruiters :
           recruiters = [i \in 1..NRecruiters |->
               [availability |->
                    SplitAvailability(i, k, RecruiterOptions, <<"full", "head">>),
                team |-> TeamNames[((i - 1) % Len(TeamNames)) + 1]]]
    /\ \E k \in 1..NRooms :
           rooms = [i \in 1..NRooms |->
               [availability |->
                    SplitAvailability(i, k, RoomOptions, <<"full", "first">>)]]
    /\ InitState
    /\ pc = "schedule_interviews"

\* InterviewScheduler on one applicant or on the applicants of InitData
SpecExactSizes == (InitExact \/ InitExactOne) /\ [][NextExact]_vars

\* No applicant is loaded (an applicant file without rows), with the
\* recruiters and rooms of InitData.
InitExactNone ==
    /\ scheduler = "exact"
    /\ has_ortools \in BOOLEAN
    /\ applicants = << >>
    /\ \E k \in 0..NRecruiters :
           recruiters = [i \in 1..NRecruiters |->
               [availability |->
                    SplitAvailability(i, k, RecruiterOptions, <<"full", "head">>),
                team |-> TeamNames[((i - 1) % Len(TeamNames)) + 1]]]
    /\ \E k \in 1..NRooms :
           rooms = [i \in 1..NRooms |->
               [availability |->
                    SplitAvailability(i, k, RoomOptions, <<"full", "first">>)]]
    /\ InitState
    /\ pc = "schedule_interviews"

\* InterviewScheduler on no applicant, one applicant or the applicants of InitData
SpecExactAnySize ==
    (InitExact \/ InitExactOne \/ InitExactNone) /\ [][NextExact]_vars

Init == InitImproved \/ InitSimple \/ InitExact

Next == NextImproved \/ NextSimple \/ NextExact

Spec == Init /\ [][Next]_vars

(***************************************************************************)
(* Properties                                                              *)
(***************************************************************************)
Groups == {k \in DOMAIN scheduled_interviews : scheduled_interviews[k].type = "group"}

Individuals ==
    {k \in DOMAIN scheduled_interviews : scheduled_interviews[k].type = "individual"}

\* Two scheduled interviews whose intervals overlap.
OverlappingPairs ==
    {p \in (DOMAIN scheduled_interviews) \X (DOMAIN scheduled_interviews) :
        /\ p[1] < p[2]
        /\ scheduled_interviews[p[1]].time_slot.start < scheduled_interviews[p[2]].time_slot.end
        /\ scheduled_interviews[p[2]].time_slot.start < scheduled_interviews[p[1]].time_slot.end}

SharedApplicants(p) ==
    Range(scheduled_interviews[p[1]].applicants)
        \cap Range(scheduled_interviews[p[2]].applicants)

SharedRecruiters(p) ==
    Range(scheduled_interviews[p[1]].recruiters)
        \cap Range(scheduled_interviews[p[2]].recruiters)

SameRoom(p) == scheduled_interviews[p[1]].room = scheduled_interviews[p[2]].room

\* The interval lies inside one interval of the availability.
IntervalWithin(time_slot, availability) ==
    \E k \in DOMAIN availability :
        /\ availability[k].start <= time_slot.start
        /\ time_slot.end <= availability[k].end

\* SimpleScheduler went down _greedy_schedule / _try_ortools_scheduling succeeded
GreedyPath ==
    /\ scheduler = "simple"
    /\ pc \in {"greedy_groups", "greedy_individuals", "done"}
    /\ solution = NoSolution

SolverPath == scheduler = "simple" /\ solution # NoSolution

\* C1: in ImprovedScheduler no two scheduled interviews with overlapping
\* intervals share an applicant, a recruiter or a room, in every state of a run
\* and so in the schedule schedule_interviews leaves, whatever the shuffle.
C1_NoDoubleBooking ==
    scheduler = "improved" =>
        \A p \in OverlappingPairs :
            /\ SharedApplicants(p) = {}
            /\ SharedRecruiters(p) = {}
            /\ ~SameRoom(p)

\* schedule_interviews has returned True with the shuffled strategy's schedule,
\* which holds interviews that overlap in time.
C1_Witness ==
    /\ scheduler = "improved" /\ pc = "done" /\ ret = "True"
    /\ best_result.strategy = "improved_greedy"
    /\ OverlappingPairs # {}

\* C2: on SimpleScheduler's greedy path no room and no recruiter is in two
\* scheduled interviews whose intervals overlap.
C2_GreedyNoSharedRoomOrRecruiter ==
    GreedyPath =>
        \A p \in OverlappingPairs : SharedRecruiters(p) = {} /\ ~SameRoom(p)

\* C3: on SimpleScheduler's greedy path an applicant's individual interview
\* never overlaps the same applicant's group interview.
C3_GreedyIndividualClearOfGroup ==
    GreedyPath =>
        \A p \in OverlappingPairs :
            scheduled_interviews[p[1]].type # scheduled_interviews[p[2]].type
                => SharedApplicants(p) = {}

\* C4: every group interview ImprovedScheduler creates, under either strategy,
\* has 4 to 8 applicants and at least 4 recruiters.
C4_ImprovedGroupShape ==
    scheduler = "improved" =>
        \A k \in Groups :
            /\ Len(scheduled_interviews[k].applicants) >= 4
            /\ Len(scheduled_interviews[k].applicants) <= 8
            /\ Len(scheduled_interviews[k].recruiters) >= 4

\* C5: every group interview SimpleScheduler creates, on the solver path and
\* on the greedy path, has 4 to 8 applicants and at least 4 recruiters.
C5_SimpleGroupShape ==
    scheduler = "simple" =>
        \A k \in Groups :
            /\ Len(scheduled_interviews[k].applicants) >= 4
            /\ Len(scheduled_interviews[k].applicants) <= 8
            /\ Len(scheduled_interviews[k].recruiters) >= 4

\* C6: in ImprovedScheduler (both strategies) and on SimpleScheduler's greedy
\* path, the interval of every scheduled interview lies inside a single
\* availability interval of each of its applicants (the ones pulled into a
\* group included), of each of its recruiters and of its room.
C6_WithinAvailability ==
    (scheduler = "improved" \/ GreedyPath) =>
        \A k \in DOMAIN scheduled_interviews :
            LET interview == scheduled_interviews[k]
            IN  /\ \A a \in Range(interview.applicants) :
                       IntervalWithin(interview.time_slot, applicants[a].availability)
                /\ \A r \in Range(interview.recruiters) :
                       IntervalWithin(interview.time_slot, recruiters[r].availability)
                /\ IntervalWithin(interview.time_slot, rooms[interview.room].availability)

\* The greedy path has ended with a group interview and with an interview on
\* the second day, one of whose applicants has two availability intervals.
C6_Witness ==
    /\ GreedyPath /\ pc = "done"
    /\ Groups # {}
    /\ \E k \in DOMAIN scheduled_interviews :
           /\ scheduled_interviews[k].time_slot.start >= DayMinutes
           /\ \E a \in Range(scheduled_interviews[k].applicants) :
                  Len(applicants[a].availability) = 2

\* C7: on SimpleScheduler's solver path the applicant and the room of every
\* interview are available for the whole interval of the interview.
C7_SolverPathWithinAvailability ==
    SolverPath =>
        \A k \in DOMAIN scheduled_interviews :
            LET interview == scheduled_interviews[k]
            IN  /\ \A a \in Range(interview.applicants) :
                       IntervalWithin(interview.time_slot, applicants[a].availability)
                /\ IntervalWithin(interview.time_slot, rooms[interview.room].availability)

\* C8: once InterviewScheduler has built its constraints, every group variable
\* of a slot (of an applicant, a recruiter, a room) is forced to zero unless the
\* entity's availability contains the whole 40-minute interval starting at the
\* slot's start.
C8_GroupVariablesForcedToZero ==
    (scheduler = "exact" /\ pc = "second_pass") =>
        \A i \in 1..Len(time_slots) :
            LET group_slot == TimeSlot(time_slots[i].start,
                                       time_slots[i].start + GroupMinutes)
            IN  /\ \A a \in DOMAIN applicants :
                       ~IntervalWithin(group_slot, applicants[a].availability)
                           => Exact_applicant_forced_zero(a, i)
                /\ \A r \in DOMAIN recruiters :
                       ~IntervalWithin(group_slot, recruiters[r].availability)
                           => Exact_recruiter_forced_zero(r, i)
                /\ \A room_id \in DOMAIN rooms :
                       ~IntervalWithin(group_slot, rooms[room_id].availability)
                           => Exact_room_forced_zero(room_id, i)

\* C9: every individual interview in a schedule of ImprovedScheduler, of
\* SimpleScheduler (solver path or greedy path) or extracted by
\* InterviewScheduler has exactly one applicant and exactly one recruiter.
C9_IndividualShape ==
    \A k \in Individuals :
        /\ Len(scheduled_interviews[k].applicants) = 1
        /\ Len(scheduled_interviews[k].recruiters) = 1

\* A run has ended with individual interviews in its schedule.
C9_Witness ==
    /\ pc = "done" /\ SolverPath
    /\ Cardinality(Individuals) >= 2

\* C10: in every state of an ImprovedScheduler strategy run and of
\* SimpleScheduler's greedy path each applicant is in at most one group
\* interview and at most one individual interview, and the flag sets are exact.
C10_FlagsExact ==
    (scheduler = "improved" \/ GreedyPath) =>
        LET InterviewsOf(a, kind) ==
                {k \in kind : a \in Range(scheduled_interviews[k].applicants)}
        IN \A a \in DOMAIN applicants :
               /\ Cardinality(InterviewsOf(a, Groups)) <= 1
               /\ Cardinality(InterviewsOf(a, Individuals)) <= 1
               /\ a \in applicant_group_scheduled <=> InterviewsOf(a, Groups) # {}
               /\ a \in applicant_individual_scheduled
                      <=> InterviewsOf(a, Individuals) # {}

\* A strategy run of ImprovedScheduler holds two group interviews and an
\* applicant with both interviews.
C10_Witness ==
    /\ scheduler = "improved" /\ pc \in {"phase1_group", "greedy_group"}
    /\ Cardinality(Groups) >= 2
    /\ applicant_group_scheduled \cap applicant_individual_scheduled # {}

\* The applicants that are in a group interview and in an individual interview.
FullyScheduled ==
    {a \in DOMAIN applicants :
        /\ \E k \in Groups : a \in Range(scheduled_interviews[k].applicants)
        /\ \E k \in Individuals : a \in Range(scheduled_interviews[k].applicants)}

\* Interview j is the next interview of applicant a after interview i, in the
\* order of start times (list order among equal starts).
NextInterviewOf(a, i, j) ==
    LET Mine == {k \in DOMAIN scheduled_interviews :
                    a \in Range(scheduled_interviews[k].applicants)}
        Before(x, y) ==
            \/ scheduled_interviews[x].time_slot.start < scheduled_interviews[y].time_slot.start
            \/ /\ scheduled_interviews[x].time_slot.start = scheduled_interviews[y].time_slot.start
               /\ x < y
    IN /\ i \in Mine /\ j \in Mine /\ Before(i, j)
       /\ ~\E k \in Mine : Before(i, k) /\ Before(k, j)

\* An applicant and two consecutive interviews of theirs with more than 90
\* minutes between the end of the first and the start of the second.
ProximityViolations ==
    {v \in (DOMAIN applicants) \X (DOMAIN scheduled_interviews) \X (DOMAIN scheduled_interviews) :
        /\ NextInterviewOf(v[1], v[2], v[3])
        /\ scheduled_interviews[v[3]].time_slot.start
             - scheduled_interviews[v[2]].time_slot.end > ProximityMinutes}

\* C11: in every state of ImprovedScheduler, _evaluate_schedule returns
\* 100 * (applicants with both a group and an individual interview)
\* + 10 * (scheduled interviews) - 50 * (proximity violations in the schedule,
\* i.e. consecutive interviews of one applicant more than 90 minutes apart,
\* end to start).
C11_ScoreFormula ==
    scheduler = "improved" =>
        Imp_evaluate_schedule = 100 * Cardinality(FullyScheduled)
                                + 10 * Len(scheduled_interviews)
                                - 50 * Cardinality(ProximityViolations)

\* A successful strategy run is about to be scored: it holds fully scheduled
\* applicants, a proximity violation, and a pair of interviews of one applicant
\* whose starts are more than 90 minutes apart while the gap between them is not.
C11_Witness ==
    /\ scheduler = "improved" /\ pc = "evaluate" /\ success
    /\ Cardinality(FullyScheduled) >= 2
    /\ ProximityViolations # {}
    /\ \E a \in DOMAIN applicants, i, j \in DOMAIN scheduled_interviews :
          /\ NextInterviewOf(a, i, j)
          /\ scheduled_interviews[j].time_slot.start
               - scheduled_interviews[i].time_slot.start > ProximityMinutes
          /\ scheduled_interviews[j].time_slot.start
               - scheduled_interviews[i].time_slot.end <= ProximityMinutes

\* C12: the schedule schedule_interviews retains scores at least as high as
\* the schedule of every strategy run that scheduled an interview: each such
\* run is scored against best_score when it ends, best_score never decreases,
\* and the retained schedule is the one whose score is best_score.
C12_RetainedScoreIsHighest ==
    /\ [](scheduler = "improved" /\ pc = "done" /\ ret = "True"
            => Imp_evaluate_schedule = best_score)
    /\ [][scheduler = "improved" =>
            /\ best_score' >= best_score
            /\ (pc = "evaluate" /\ Len(scheduled_interviews) > 0)
                   => best_score' >= Imp_evaluate_schedule
         ]_vars

\* C13: when a successful strategy run scores the same as the best run so far,
\* the earlier run's schedule stays the retained one, and the schedule that
\* schedule_interviews leaves on success is the retained one.
C13_TieKeepsEarlierStrategy ==
    /\ [](scheduler = "improved" /\ pc = "done" /\ ret = "True"
            => /\ scheduled_interviews = best_result.interviews
               /\ applicant_group_scheduled = best_result.group_scheduled
               /\ applicant_individual_scheduled = best_result.individual_scheduled)
    /\ [][(/\ scheduler = "improved" /\ pc = "evaluate" /\ success
           /\ best_result # None
           /\ Imp_evaluate_schedule = best_score)
              => UNCHANGED <<best_result, best_score>>
         ]_vars

\* improved_greedy has been scored: its schedule differs from the schedule of
\* optimized_two_phase, scores the same, and optimized_two_phase is retained.
C13_Witness ==
    /\ scheduler = "improved" /\ pc = "strategies" /\ strategy > Len(strategies)
    /\ success
    /\ best_result # None
    /\ best_result.strategy = "optimized_two_phase"
    /\ Imp_evaluate_schedule = best_score
    /\ scheduled_interviews # best_result.interviews

\* C14: ImprovedScheduler.schedule_interviews returns False exactly when every
\* strategy run ended with zero scheduled interviews, and otherwise returns
\* True with a non-empty scheduled_interviews: a run that ends with an
\* interview leaves a best result, a best result is only ever taken from a run
\* with interviews and is never dropped, and the return value is False exactly
\* when there is no best result.
C14_FalseIffNothingScheduled ==
    /\ [](scheduler = "improved" /\ pc = "done"
            => /\ ret \in {"True", "False"}
               /\ ret = "False" <=> best_result = None
               /\ ret = "True" => scheduled_interviews # <<>>)
    /\ [][scheduler = "improved" =>
            /\ (pc = "evaluate" /\ scheduled_interviews # <<>>) => best_result' # None
            /\ best_result # None => best_result' # None
            /\ best_result' # best_result => scheduled_interviews # <<>>
         ]_vars

\* schedule_interviews has returned True after a run of improved_greedy that
\* placed interviews and reported failure.
C14_Witness ==
    /\ scheduler = "improved" /\ pc = "done" /\ ret = "True"
    /\ ~success
    /\ room_schedule # {}

\* C15: SimpleScheduler.schedule_interviews returns False only when no
\* interview at all was scheduled: a run that scheduled interviews returns
\* True even if applicants lack one or both of their interviews.
C15_PartialCoverageNotFatal ==
    (scheduler = "simple" /\ pc = "done" /\ scheduled_interviews # <<>>)
        => ret = "True"

\* C16: when SimpleScheduler.schedule_interviews has returned, on either path,
\* unscheduled_applicants holds exactly the loaded applicants that lack a group
\* interview or lack an individual interview.
C16_UnscheduledExact ==
    (scheduler = "simple" /\ pc = "done") =>
        Range(unscheduled_applicants) = (DOMAIN applicants) \ FullyScheduled

\* The applicants that are in a group and in an individual interview of a list.
FullyScheduledIn(interviews) ==
    {a \in DOMAIN applicants :
        /\ \E k \in DOMAIN interviews :
              interviews[k].type = "group" /\ a \in Range(interviews[k].applicants)
        /\ \E k \in DOMAIN interviews :
              interviews[k].type = "individual" /\ a \in Range(interviews[k].applicants)}

\* C17: the relaxed pass of InterviewScheduler.schedule_interviews, whether
\* its solver call succeeds or not, keeps every scheduled interview (the list
\* only grows at its end), adds no applicant to unscheduled_applicants (the
\* new list is the old one with entries removed), and so never lowers the
\* number of applicants holding both interviews.
C17_RelaxedPassMonotone ==
    [][(scheduler = "exact" /\ pc = "second_pass") =>
          /\ Len(scheduled_interviews') >= Len(scheduled_interviews)
          /\ SubSeq(scheduled_interviews', 1, Len(scheduled_interviews))
                = scheduled_interviews
          /\ LET Kept(a) == a \in Range(unscheduled_applicants')
             IN unscheduled_applicants' = SelectSeq(unscheduled_applicants, Kept)
          /\ Cardinality(FullyScheduledIn(scheduled_interviews'))
                >= Cardinality(FullyScheduledIn(scheduled_interviews))
      ]_vars

\* The relaxed pass has run on the applicants the strict pass left unscheduled.
C17_Witness ==
    /\ scheduler = "exact" /\ has_ortools /\ pc = "return"
    /\ unscheduled_applicants # <<>>

\* C18: the call of _evaluate_schedule in schedule_interviews changes neither
\* scheduled_interviews, nor the flag sets, nor the occupancy maps, and
\* scoring the state it leaves again gives the score the call returned (the
\* one recorded as best_score when the run became the best result).
C18_ScoringIsPure ==
    /\ [](/\ scheduler = "improved" /\ pc = "strategies" /\ strategy > 1
           /\ best_result # None
           /\ best_result.strategy = strategies[strategy - 1]
              => Imp_evaluate_schedule = best_score)
    /\ [][(scheduler = "improved" /\ pc = "evaluate" /\ success) =>
             /\ UNCHANGED schedule_state
             /\ best_score' # best_score => best_score' = Imp_evaluate_schedule
         ]_vars

\* A schedule has been scored whose interview list is not in order of start
\* time and which holds a proximity violation.
C18_Witness ==
    /\ scheduler = "improved" /\ pc = "strategies" /\ strategy > 1 /\ success
    /\ best_score = Imp_evaluate_schedule
    /\ ProximityViolations # {}
    /\ \E i, j \in DOMAIN scheduled_interviews :
          /\ i < j
          /\ scheduled_interviews[j].time_slot.start
                < scheduled_interviews[i].time_slot.start

\* The loaded data are 1 room, 4 recruiters, two from each of two teams, and 5
\* applicants with one and the same 40-minute availability window, for which
\* the room and every recruiter are available.
OneWindowData ==
    /\ Len(rooms) = 1 /\ Len(recruiters) = 4 /\ Len(applicants) = 5
    /\ \A a \in DOMAIN applicants :
          /\ applicants[a].availability = applicants[1].availability
          /\ Len(applicants[a].availability) = 1
          /\ applicants[a].availability[1].end
                = applicants[a].availability[1].start + GroupMinutes
    /\ \E i \in DOMAIN time_slots :
          time_slots[i].start = applicants[1].availability[1].start
    /\ \E t1, t2 \in Range(TeamNames) :
          /\ t1 # t2
          /\ Cardinality({r \in DOMAIN recruiters : recruiters[r].team = t1}) = 2
          /\ Cardinality({r \in DOMAIN recruiters : recruiters[r].team = t2}) = 2
    /\ \A r \in DOMAIN recruiters :
          IntervalWithin(applicants[1].availability[1], recruiters[r].availability)
    /\ IntervalWithin(applicants[1].availability[1], rooms[1].availability)

\* C19: on such data ImprovedScheduler.schedule_interviews returns True with
\* exactly one group interview, which takes the whole window, contains all 5
\* applicants and all 4 recruiters, and so has both teams represented.
C19_OneWindowOneGroup ==
    (scheduler = "improved" /\ pc = "done" /\ OneWindowData) =>
        /\ ret = "True"
        /\ Cardinality(Groups) = 1
        /\ \A k \in Groups :
              /\ scheduled_interviews[k].time_slot = applicants[1].availability[1]
              /\ Range(scheduled_interviews[k].applicants) = DOMAIN applicants
              /\ Len(scheduled_interviews[k].applicants) = 5
              /\ Range(scheduled_interviews[k].recruiters) = DOMAIN recruiters
              /\ Len(scheduled_interviews[k].recruiters) = 4
              /\ {recruiters[r].team : r \in Range(scheduled_interviews[k].recruiters)}
                    = {recruiters[r].team : r \in DOMAIN recruiters}

\* schedule_interviews has returned on such data, with room and recruiters
\* available for the whole evening.
C19_Witness ==
    /\ scheduler = "improved" /\ pc = "done" /\ OneWindowData
    /\ Groups # {}
    /\ Len(scheduled_interviews) = 1
    /\ rooms[1].availability[1].end - rooms[1].availability[1].start > 60
    /\ recruiters[1].availability # applicants[1].availability

\* The grid slots at which an applicant could take an individual interview on
\* an empty schedule: the applicant, a room and a recruiter are available for
\* the 20 minutes.
IndividualSlotsOf(a) ==
    {i \in DOMAIN time_slots :
        /\ IntervalWithin(time_slots[i], applicants[a].availability)
        /\ \E room_id \in DOMAIN rooms :
              IntervalWithin(time_slots[i], rooms[room_id].availability)
        /\ \E r \in DOMAIN recruiters :
              IntervalWithin(time_slots[i], recruiters[r].availability)}

\* Two applicants with different availability who can each take an individual
\* interview at one and the same single slot only, where one room is available.
SoleRoomData ==
    /\ Len(applicants) = 2
    /\ applicants[1].availability # applicants[2].availability
    /\ Cardinality(IndividualSlotsOf(1)) = 1
    /\ IndividualSlotsOf(2) = IndividualSlotsOf(1)
    /\ \A i \in IndividualSlotsOf(1) :
          Cardinality({room_id \in DOMAIN rooms :
              IntervalWithin(time_slots[i], rooms[room_id].availability)}) = 1

\* C20: on such data no room holds two overlapping interviews in any state of
\* an ImprovedScheduler run, and when schedule_interviews has returned exactly
\* one individual interview is scheduled, at the single slot, for one of the
\* two applicants; the other applicant has no individual interview and is
\* listed in the unscheduled report.
C20_SoleRoomOneWinner ==
    (scheduler = "improved" /\ SoleRoomData) =>
        /\ \A p \in OverlappingPairs : ~SameRoom(p)
        /\ pc = "done" =>
              /\ ret = "True"
              /\ Cardinality(Individuals) = 1
              /\ \A k \in Individuals :
                    /\ \E i \in IndividualSlotsOf(1) :
                          scheduled_interviews[k].time_slot = time_slots[i]
                    /\ Len(scheduled_interviews[k].applicants) = 1
              /\ Cardinality(applicant_individual_scheduled) = 1
              /\ \A a \in DOMAIN applicants :
                    a \notin applicant_individual_scheduled
                        => /\ a \in Range(Imp_unscheduled_report)
                           /\ \A k \in DOMAIN scheduled_interviews :
                                 a \notin Range(scheduled_interviews[k].applicants)

\* schedule_interviews has returned on such data: the first applicant holds
\* the slot, and during the shuffled run the second applicant held it.
C20_Witness ==
    /\ scheduler = "improved" /\ pc = "done" /\ SoleRoomData
    /\ applicant_individual_scheduled = {1}
    /\ applicant_list[1] = 2
    /\ room_schedule # {}

\* The constraints of a pass but the team-matching ones hold.
SatisfiedButTeamMatching(sol, strict) ==
    LET apps == Range(Keys(applicants))
    IN  /\ Exact_uniqueness(sol, apps)
        /\ Exact_room_capacity(sol, apps)
        /\ Exact_availability(sol, apps)
        /\ Exact_group_constraints(sol, apps, strict)
        /\ strict => Exact_time_proximity(sol, apps)

\* C21: with OR-Tools present and at least one applicant loaded, no assignment
\* satisfies the constraint model of the strict or of the relaxed pass, no
\* interview is ever scheduled, and InterviewScheduler.schedule_interviews
\* returns False with every applicant in unscheduled_applicants.
C21_ExactModelUnsatisfiable ==
    (scheduler = "exact" /\ has_ortools /\ Len(applicants) >= 1) =>
        /\ pc = "schedule_interviews" =>
              \A strict \in BOOLEAN, c \in ExactCandidates(Keys(applicants)) :
                  ~Exact_model_satisfied(c, Keys(applicants), strict)
        /\ scheduled_interviews = <<>>
        /\ pc \in {"return", "done"} => unscheduled_applicants = Keys(applicants)
        /\ pc = "return" => ~success
        /\ pc = "done" => ret = "False"

\* schedule_interviews has returned False for several applicants on data for
\* which an assignment satisfies every constraint of the relaxed pass but the
\* team-matching ones.
C21_Witness ==
    /\ scheduler = "exact" /\ has_ortools /\ pc = "done" /\ ret = "False"
    /\ Len(applicants) >= 2
    /\ \E c \in ExactCandidates(Keys(applicants)) : SatisfiedButTeamMatching(c, FALSE)

\* C22: in every assignment that satisfies the uniqueness, room-capacity and
\* group-interview constraints of InterviewScheduler, group_happening of a
\* (slot, room) is 1 exactly when some applicant's group variable there is 1,
\* and every (slot, room) with a group assignment has 4 to 8 applicants
\* assigned and at least 4 recruiters participating.
C22_GroupHappeningIffAssigned ==
    (scheduler = "exact" /\ pc = "schedule_interviews") =>
        \A strict \in BOOLEAN, c \in ExactCandidates(Keys(applicants)) :
            LET apps == Range(Keys(applicants))
                InGroup(i, room_id) == {a \in apps : <<a, i, room_id>> \in c.group}
                RecInGroup(i, room_id) ==
                    {r \in Range(Keys(recruiters)) : <<r, i, room_id>> \in c.recruiter_group}
            IN  (/\ Exact_uniqueness(c, apps)
                 /\ Exact_room_capacity(c, apps)
                 /\ Exact_group_constraints(c, apps, strict))
                => \A i \in 1..Len(time_slots), room_id \in Range(Keys(rooms)) :
                       /\ <<i, room_id>> \in c.group_happening <=> InGroup(i, room_id) # {}
                       /\ InGroup(i, room_id) # {} =>
                             /\ Cardinality(InGroup(i, room_id)) >= MinGroupSize
                             /\ Cardinality(InGroup(i, room_id)) <= MaxGroupSize
                             /\ Cardinality(RecInGroup(i, room_id)) >= GroupRecruiters

\* The individual interview j of applicant a, more than 90 minutes after or
\* before their group interview i, has an alternative placement: a grid slot
\* that passes every test of the individual placement search in the current
\* schedule and lies within 90 minutes of the group interview.
HasCloserIndividualSlot(a, i, j) ==
    LET group == scheduled_interviews[IF scheduled_interviews[i].type = "group"
                                      THEN i ELSE j]
    IN \E s \in DOMAIN time_slots :
          /\ Imp_individual_greedy_candidate(a, time_slots[s]).ok
          /\ time_slots[s].start - group.time_slot.end <= ProximityMinutes
          /\ group.time_slot.start - time_slots[s].end <= ProximityMinutes

\* C23: when Phase 2 of the optimized strategy has ended, no proximity
\* violation remains for which an alternative placement of the individual
\* interview within the 90-minute bound exists.
C23_RepairRemovesViolation ==
    (scheduler = "improved" /\ pc = "evaluate" /\ strategies[strategy] = "optimized_two_phase")
        => \A v \in ProximityViolations : ~HasCloserIndividualSlot(v[1], v[2], v[3])

\* C24: Phase 2 terminates and never fails the run: the repair loop counter
\* stays within the cap of 50 and counts the repairs made, a pass of the loop
\* continues only after a repair and leaves the loop when no violation remains,
\* a repair failed or the cap is reached, a pass without a repair leaves the
\* schedule as it was, the run reports success when it holds an interview
\* whatever violations remain, the violations left are counted by the scorer,
\* and every run that enters Phase 2 reaches the scoring step.
C24_Phase2Terminates ==
    /\ [](pc = "phase2" => /\ iteration <= MaxIterations
                           /\ improvements = iteration)
    /\ [][pc = "phase2" =>
            /\ pc' \in {"phase2", "evaluate"}
            /\ pc' = "phase2" => /\ Imp_improve_spacing_iteration
                                 /\ iteration' = iteration + 1
            /\ pc' = "evaluate" =>
                  /\ \/ Imp_find_spacing_violations = <<>>
                     \/ ~Imp_improve_spacing_iteration
                     \/ iteration = MaxIterations
                  /\ success' = (Len(scheduled_interviews) > 0)
            /\ ~Imp_improve_spacing_iteration => schedule_state' = schedule_state]_vars
    /\ []((pc = "evaluate" /\ strategies[strategy] = "optimized_two_phase")
            => Imp_evaluate_schedule
                 = 100 * Cardinality(FullyScheduled) + 10 * Len(scheduled_interviews)
                   - 50 * Cardinality(ProximityViolations))
    /\ (pc = "phase2") ~> (pc = "evaluate")

\* Phase 2 has ended without a repair, the run is reported successful and
\* the schedule to be scored still holds a proximity violation.
C24_Witness ==
    /\ scheduler = "improved" /\ pc = "evaluate"
    /\ strategies[strategy] = "optimized_two_phase"
    /\ success /\ improvements = 0
    /\ ProximityViolations # {}

\* The grid slots an applicant is available for.
AvailableSlots(a) ==
    {s \in DOMAIN time_slots :
        IntervalWithin(time_slots[s], applicants[a].availability)}

\* C25: during Phase 1 of the optimized strategy the applicants are taken in
\* non-decreasing order of the number of grid slots they are available for,
\* and the individual placement of an applicant is attempted only after the
\* group placement of that applicant.
C25_FewestSlotsFirst ==
    (scheduler = "improved" /\ pc \in {"phase1_group", "phase1_individual"}) =>
        /\ \A i, j \in DOMAIN applicant_list :
              i < j => Cardinality(AvailableSlots(applicant_list[i]))
                         <= Cardinality(AvailableSlots(applicant_list[j]))
        /\ pc = "phase1_individual" => pos \in DOMAIN applicant_list

GroupCandidates(a) ==
    [i \in 1..Len(time_slots) |-> Imp_group_flexible_candidate(a, time_slots[i])]

IndividualCandidates(a) ==
    [i \in 1..Len(time_slots) |-> Imp_individual_flexible_candidate(a, time_slots[i])]

\* The slots that pass the tests with the largest score, the earliest of them.
BestSlots(cand) ==
    {b \in DOMAIN cand :
        /\ cand[b].ok
        /\ \A j \in DOMAIN cand :
              cand[j].ok => \/ cand[j].score < cand[b].score
                            \/ /\ cand[j].score = cand[b].score
                               /\ time_slots[b].start <= time_slots[j].start}

\* The step appends one interview of the given type, at a slot of best.
CommitsAt(best, type) ==
    /\ Len(scheduled_interviews') = Len(scheduled_interviews) + 1
    /\ SubSeq(scheduled_interviews', 1, Len(scheduled_interviews)) = scheduled_interviews
    /\ scheduled_interviews'[Len(scheduled_interviews')].type = type
    /\ \E b \in best :
          scheduled_interviews'[Len(scheduled_interviews')].time_slot.start
              = time_slots[b].start

\* C26: a Phase 1 placement search commits the applicant's interview at a
\* slot whose score is the largest among the slots that pass the tests, the
\* earliest such slot when scores tie; when no slot passes it reports False
\* and leaves scheduled_interviews, the flag sets and the occupancy maps as
\* they were.
C26_CommitsBestSlot ==
    [][/\ (pc = "phase1_group" /\ pos <= Len(applicant_list)
           /\ applicant_list[pos] \notin applicant_group_scheduled) =>
              IF BestSlots(GroupCandidates(applicant_list[pos])) = {}
              THEN schedule_state' = schedule_state /\ group_scheduled' = FALSE
              ELSE /\ CommitsAt(BestSlots(GroupCandidates(applicant_list[pos])), "group")
                   /\ group_scheduled' = TRUE
       /\ (pc = "phase1_individual"
           /\ applicant_list[pos] \notin applicant_individual_scheduled) =>
              IF BestSlots(IndividualCandidates(applicant_list[pos])) = {}
              THEN /\ schedule_state' = schedule_state
                   /\ scheduled_completely' = scheduled_completely
              ELSE /\ CommitsAt(BestSlots(IndividualCandidates(applicant_list[pos])),
                                "individual")
                   /\ applicant_list[pos] \in applicant_individual_scheduled'
      ]_vars

\* Phase 1 has committed interviews, and the individual search about to run
\* has several passing slots: two that tie for the largest score and one that
\* scores less.
C26_Witness ==
    /\ scheduler = "improved" /\ pc = "phase1_individual"
    /\ scheduled_interviews # <<>>
    /\ applicant_list[pos] \notin applicant_individual_scheduled
    /\ LET cand == IndividualCandidates(applicant_list[pos])
       IN \E b \in BestSlots(cand) :
             /\ \E j \in DOMAIN cand : j # b /\ cand[j].ok /\ cand[j].score = cand[b].score
             /\ \E j \in DOMAIN cand : cand[j].ok /\ cand[j].score < cand[b].score

\* The applicants for whom a placement search can still be run.
SearchableApplicants ==
    {a \in DOMAIN applicants :
        a \notin applicant_group_scheduled \cap applicant_individual_scheduled}

InterviewsOf(a) ==
    {k \in DOMAIN scheduled_interviews : a \in Range(scheduled_interviews[k].applicants)}

\* The slots at which a search for the applicant gets past the availability
\* test, for either kind of interview.
CandidateStarts(a) ==
    {s \in DOMAIN time_slots :
        Imp_is_applicant_available(a, time_slots[s].start, IndividualMinutes)}

\* C27: for an applicant whose placement is still searched, the timing score
\* of a candidate start is 0 when the applicant has no scheduled interview;
\* otherwise the applicant has one scheduled interview, the counterpart, and
\* the score is 100 minus the minutes between the two starts when these are at
\* most 90, and 0 when they are more.
C27_TimingScore ==
    scheduler = "improved" =>
        \A a \in SearchableApplicants : \A s \in CandidateStarts(a) :
            IF InterviewsOf(a) = {}
            THEN Imp_timing_score(a, time_slots[s].start) = 0
            ELSE /\ Cardinality(InterviewsOf(a)) = 1
                 /\ LET k == CHOOSE k \in InterviewsOf(a) : TRUE
                        distance == Abs(scheduled_interviews[k].time_slot.start
                                        - time_slots[s].start)
                    IN Imp_timing_score(a, time_slots[s].start)
                         = IF distance <= ProximityMinutes THEN 100 - distance ELSE 0

\* The individual search is about to run for an applicant with a group
\* interview who is available for a slot starting within 90 minutes of the
\* group's start and for one starting further away.
C27_Witness ==
    /\ scheduler = "improved" /\ pc = "phase1_individual"
    /\ applicant_list[pos] \in applicant_group_scheduled \ applicant_individual_scheduled
    /\ LET a == applicant_list[pos]
           k == CHOOSE k \in InterviewsOf(a) : TRUE
           Distance(s) == Abs(scheduled_interviews[k].time_slot.start - time_slots[s].start)
           Free(s) == Imp_is_applicant_available(a, time_slots[s].start, IndividualMinutes)
       IN /\ \E s \in DOMAIN time_slots : Free(s) /\ Distance(s) < ProximityMinutes
          /\ \E s \in DOMAIN time_slots : Free(s) /\ Distance(s) > ProximityMinutes

\* The position in the grid of the slot starting at start_time.
SlotIndex(start_time) ==
    CHOOSE s \in DOMAIN time_slots : time_slots[s].start = start_time

\* proximity_ok for the two interviews of a fully scheduled applicant: their
\* start positions differ by at most 4 grid slots.
ProximityOk(a) ==
    LET group == CHOOSE k \in InterviewsOf(a) : scheduled_interviews[k].type = "group"
        individual == CHOOSE k \in InterviewsOf(a) :
                          scheduled_interviews[k].type = "individual"
    IN Abs(SlotIndex(scheduled_interviews[group].time_slot.start)
           - SlotIndex(scheduled_interviews[individual].time_slot.start))
         <= ProximitySlots

\* C28: the scorer counts the pair of interviews of a fully scheduled
\* applicant as a proximity violation exactly when their start positions
\* differ by more than 4 grid slots.
C28_ViolationIffProximityFails ==
    scheduler = "improved" =>
        \A a \in FullyScheduled :
            (\E v \in ProximityViolations : v[1] = a) <=> ~ProximityOk(a)

\* The assignment with one applicant's group interview at slot i and
\* individual interview at slot j.
PairAssignment(a, i, j, room_id) ==
    [group |-> {<<a, i, room_id>>}, individual |-> {<<a, j, room_id>>}]

\* C29: the proximity constraint of InterviewScheduler admits only pairs of
\* grid slots whose start times are at most 90 minutes apart, whichever
\* days the two slots lie on.
C29_IndexWindowWithin90Minutes ==
    scheduler = "exact" =>
        \A i, j \in DOMAIN time_slots :
            Exact_time_proximity(PairAssignment(1, i, j, 1), {1})
                => Abs(time_slots[i].start - time_slots[j].start) <= ProximityMinutes

\* The positions of a strategy run, from its first placement attempt to the
\* step that returns from the strategy.
RunPositions ==
    {"phase1_group", "phase1_individual", "phase2", "greedy_group", "greedy_individual"}

\* C30: within one strategy run of ImprovedScheduler every step keeps the
\* interviews already in scheduled_interviews, in place and unmodified, adding
\* new ones at the end only, and keeps every applicant already in
\* applicant_group_scheduled and applicant_individual_scheduled in it.
C30_PlacementsNeverUndone ==
    [][(scheduler = "improved" /\ pc \in RunPositions) =>
          /\ Len(scheduled_interviews') >= Len(scheduled_interviews)
          /\ SubSeq(scheduled_interviews', 1, Len(scheduled_interviews))
                = scheduled_interviews
          /\ applicant_group_scheduled \subseteq applicant_group_scheduled'
          /\ applicant_individual_scheduled \subseteq applicant_individual_scheduled'
      ]_vars

\* A strategy run is under way after two groups and an individual interview
\* were committed.
C30_Witness ==
    /\ scheduler = "improved" /\ pc \in RunPositions
    /\ Cardinality(Groups) >= 2
    /\ applicant_individual_scheduled # {}

\* The (start, room) keys the interviews of a schedule occupy.
RoomKeysOf(interviews) ==
    {<<interviews[k].time_slot.start, interviews[k].room>> : k \in DOMAIN interviews}

\* C31: every strategy run of ImprovedScheduler.schedule_interviews starts
\* with an empty interview list, empty flag sets and empty occupancy maps;
\* the retained best result changes only when a finished run is scored, and
\* then holds that run's interviews and flag sets; running a strategy leaves
\* it as it was; and the interviews and flag sets applied at the end are the
\* retained ones.
C31_FreshStateAndRetainedResult ==
    /\ [][scheduler = "improved" =>
            /\ (pc = "strategies" /\ pc' \in RunPositions) =>
                  /\ scheduled_interviews' = <<>>
                  /\ applicant_group_scheduled' = {}
                  /\ applicant_individual_scheduled' = {}
                  /\ room_schedule' = {} /\ recruiter_schedule' = {}
            /\ pc # "evaluate" => best_result' = best_result /\ best_score' = best_score
            /\ (pc = "evaluate" /\ best_result' # best_result) =>
                  /\ best_result'.interviews = scheduled_interviews
                  /\ best_result'.group_scheduled = applicant_group_scheduled
                  /\ best_result'.individual_scheduled = applicant_individual_scheduled
                  /\ best_result'.strategy = strategies[strategy]
            /\ (pc' = "done" /\ ret' = "True") =>
                  /\ scheduled_interviews' = best_result.interviews
                  /\ applicant_group_scheduled' = best_result.group_scheduled
                  /\ applicant_individual_scheduled' = best_result.individual_scheduled
       ]_vars

\* schedule_interviews has applied the result of optimized_two_phase after
\* improved_greedy ran and left room occupancy that the applied interviews
\* do not have.
C31_Witness ==
    /\ scheduler = "improved" /\ pc = "done" /\ ret = "True"
    /\ best_result.strategy = "optimized_two_phase"
    /\ scheduled_interviews = best_result.interviews
    /\ room_schedule # RoomKeysOf(scheduled_interviews)

\* The calls of _schedule_with_constraints a step of schedule_interviews
\* makes: with OR-Tools present the first step makes the strict call over all
\* applicants and nothing before it, and the next step makes the relaxed call
\* exactly when unscheduled_applicants is not empty, over exactly the
\* applicants in that list, none of whom holds both interviews; no other step
\* makes a call.
PassesInOrder ==
    [][scheduler = "exact" =>
          /\ (pc = "schedule_interviews" /\ has_ortools) =>
                passes' = << [strict |-> TRUE,
                              applicants_to_schedule |-> Keys(applicants)] >>
          /\ pc = "second_pass" =>
                IF unscheduled_applicants # <<>>
                THEN /\ passes' = Append(passes,
                            [strict |-> FALSE,
                             applicants_to_schedule |-> unscheduled_applicants])
                     /\ Range(unscheduled_applicants)
                           \cap FullyScheduledIn(scheduled_interviews) = {}
                ELSE passes' = passes
          /\ (pc \notin {"schedule_interviews", "second_pass"} \/ ~has_ortools) =>
                passes' = passes
      ]_vars

C33_InfeasiblePassHasNoEffect ==
    [][scheduler = "exact" =>
          /\ (pc = "schedule_interviews" /\ has_ortools /\ ~success') =>
                /\ scheduled_interviews' = scheduled_interviews
                /\ unscheduled_applicants' = Keys(applicants)
                /\ pc' = "second_pass"
          /\ (pc = "second_pass" /\ ~success /\ applicants # <<>>) =>
                /\ passes' = Append(passes, Exact_pass(FALSE))
                /\ pc' = "return"
          /\ (pc = "second_pass" /\ passes' # passes /\ solution' = NoAssignment) =>
                /\ scheduled_interviews' = scheduled_interviews
                /\ unscheduled_applicants' = unscheduled_applicants
      ]_vars

\* The strict pass and then the relaxed pass have failed on several
\* applicants: no interview is scheduled, every applicant is recorded as
\* unscheduled and schedule_interviews is about to return.
C33_Witness ==
    /\ scheduler = "exact" /\ pc = "return" /\ ~success
    /\ Len(passes) = 2 /\ solution = NoAssignment
    /\ Len(applicants) >= 2
    /\ scheduled_interviews = <<>>
    /\ unscheduled_applicants = Keys(applicants)

\* The applicants of the current run whose own group attempt has been made.
GroupAttempted ==
    {applicant_list[k] : k \in {k \in DOMAIN applicant_list :
        \/ k < pos
        \/ k = pos /\ pc \in {"phase1_individual", "greedy_individual"}}}

\* C34: in both strategies of ImprovedScheduler an applicant whose own group
\* attempt has been made and who is in no group is not put into a group by a
\* later step of the run; an applicant's group interview precedes the
\* applicant's individual interview in scheduled_interviews; and the slot a
\* group search commits has timing score 0 for the searching applicant.
C34_NoLateGroupJoin ==
    /\ [](scheduler = "improved" =>
            \A i, j \in DOMAIN scheduled_interviews :
                (/\ scheduled_interviews[i].type = "group"
                 /\ scheduled_interviews[j].type = "individual"
                 /\ Range(scheduled_interviews[j].applicants)
                        \subseteq Range(scheduled_interviews[i].applicants))
                    => i < j)
    /\ [][(scheduler = "improved" /\ pc \in RunPositions) =>
            /\ \A a \in GroupAttempted :
                  a \notin applicant_group_scheduled
                      => a \notin applicant_group_scheduled'
            /\ (pc \in {"phase1_group", "greedy_group"}
                /\ Len(scheduled_interviews') > Len(scheduled_interviews)) =>
                  Imp_timing_score(applicant_list[pos],
                      scheduled_interviews'[Len(scheduled_interviews')].time_slot.start) = 0
         ]_vars

\* A run is past an applicant whose group attempt failed and who holds an
\* individual interview, while a later applicant's attempt formed a group.
C34_Witness ==
    /\ scheduler = "improved" /\ pc \in RunPositions
    /\ \E k \in DOMAIN applicant_list, g \in Groups :
          /\ k < pos
          /\ applicant_list[k] \notin applicant_group_scheduled
          /\ applicant_list[k] \in applicant_individual_scheduled
          /\ \E m \in DOMAIN applicant_list :
                /\ k < m
                /\ scheduled_interviews[g].applicants[1] = applicant_list[m]

\* C35: in every state of an ImprovedScheduler run the scorer finds at most
\* as many spacing violations as there are fully scheduled applicants and the
\* score is not negative; and when a run reported successful is scored, a
\* best result is retained afterwards, with a best score of at least that
\* run's score.
C35_ScoreNeverNegative ==
    /\ [](scheduler = "improved" =>
            /\ Len(Imp_find_spacing_violations)
                  <= Cardinality(applicant_group_scheduled
                                 \cap applicant_individual_scheduled)
            /\ Imp_evaluate_schedule >= 0)
    /\ [][(scheduler = "improved" /\ pc = "evaluate" /\ success) =>
            /\ best_result' # None
            /\ best_score' >= Imp_evaluate_schedule
            /\ best_score' > -1
         ]_vars

\* A successful run is about to be scored in which every fully scheduled
\* applicant has a spacing violation.
C35_Witness ==
    /\ scheduler = "improved" /\ pc = "evaluate" /\ success
    /\ Imp_find_spacing_violations # <<>>
    /\ Len(Imp_find_spacing_violations)
          = Cardinality(applicant_group_scheduled \cap applicant_individual_scheduled)

\* The recruiters that satisfy team affinity for the applicant and are
\* unoccupied and available for an individual interview at start_time.
FreeMatchingRecruiters(applicant_id, start_time) ==
    {r \in DOMAIN recruiters :
        /\ Simple_team_match(r, applicant_id)
        /\ Simple_recruiter_unoccupied(r, start_time)
        /\ Simple_is_recruiter_available(r, start_time, IndividualMinutes)}

\* C36: when the greedy path of SimpleScheduler commits an individual
\* interview, its recruiter was unoccupied and available at the slot, and
\* satisfies team affinity for the applicant unless no recruiter satisfying it
\* was unoccupied and available at that slot.
C36_TeamAffinityPreferred ==
    [][(/\ scheduler = "simple" /\ pc = "greedy_individuals"
        /\ Len(scheduled_interviews') > Len(scheduled_interviews)) =>
          LET interview == scheduled_interviews'[Len(scheduled_interviews')]
              applicant_id == interview.applicants[1]
              recruiter_id == interview.recruiters[1]
              start == interview.time_slot.start
          IN /\ interview.type = "individual"
             /\ Len(interview.recruiters) = 1
             /\ Simple_recruiter_unoccupied(recruiter_id, start)
             /\ Simple_is_recruiter_available(recruiter_id, start, IndividualMinutes)
             /\ FreeMatchingRecruiters(applicant_id, start) # {}
                   => Simple_team_match(recruiter_id, applicant_id)
      ]_vars

\* The greedy path has committed individual interviews of both kinds: one
\* with a matching recruiter although a recruiter earlier in the recruiter
\* list, not matching, is still unoccupied and available at the slot, and one
\* with a recruiter that does not match.
C36_Witness ==
    /\ scheduler = "simple" /\ pc = "greedy_individuals"
    /\ \E k \in Individuals :
          LET interview == scheduled_interviews[k]
              start == interview.time_slot.start
          IN /\ Simple_team_match(interview.recruiters[1], interview.applicants[1])
             /\ \E r \in DOMAIN recruiters :
                   /\ r < interview.recruiters[1]
                   /\ ~Simple_team_match(r, interview.applicants[1])
                   /\ Simple_recruiter_unoccupied(r, start)
                   /\ Simple_is_recruiter_available(r, start, IndividualMinutes)
    /\ \E k \in Individuals :
          ~Simple_team_match(scheduled_interviews[k].recruiters[1],
                             scheduled_interviews[k].applicants[1])

\* The positions inside _greedy_schedule.
GreedyPositions == {"greedy_groups", "greedy_individuals"}

\* C37: SimpleScheduler.schedule_interviews enters the greedy algorithm
\* exactly when OR-Tools is absent or the solver attempt found no solution:
\* its first step enters it in these two cases and starts extracting the
\* solution otherwise, and no later step enters it; and the greedy algorithm
\* starts with no interview, empty flag sets and empty occupancy maps.
C37_GreedyIffNoSolution ==
    /\ [](scheduler = "simple" =>
            /\ pc \in GreedyPositions => (~has_ortools \/ solution = NoSolution)
            /\ solution # NoSolution => (has_ortools /\ pc \notin GreedyPositions))
    /\ [][scheduler = "simple" =>
            /\ pc = "schedule_interviews" =>
                  /\ (~has_ortools \/ solution' = NoSolution) <=> pc' = "greedy_groups"
                  /\ (has_ortools /\ solution' # NoSolution) <=> pc' = "extract_group"
            /\ (pc \notin GreedyPositions /\ pc' \in GreedyPositions) =>
                  /\ pc = "schedule_interviews"
                  /\ scheduled_interviews' = <<>>
                  /\ applicant_group_scheduled' = {}
                  /\ applicant_individual_scheduled' = {}
                  /\ room_schedule' = {} /\ recruiter_schedule' = {}
         ]_vars

\* The greedy algorithm is running, with interviews placed, after a solver
\* attempt that found no solution.
C37_Witness ==
    /\ scheduler = "simple" /\ has_ortools /\ pc = "greedy_individuals"
    /\ solution = NoSolution
    /\ scheduled_interviews # <<>>

\* The grid has 108 slots of 20 minutes each in strictly increasing start
\* order, no two of which overlap; every slot lies inside an interview
\* period and every minute of every period lies in a slot.
GridTilesPeriods ==
    /\ Len(time_slots) = 108
    /\ \A s \in DOMAIN time_slots :
          /\ time_slots[s].end - time_slots[s].start = SlotMinutes
          /\ \E p \in DOMAIN interview_periods :
                /\ interview_periods[p][1] <= time_slots[s].start
                /\ time_slots[s].end <= interview_periods[p][2]
    /\ \A s, t \in DOMAIN time_slots :
          s < t => /\ time_slots[s].start < time_slots[t].start
                   /\ ~Overlaps(time_slots[s], time_slots[t])
    /\ \A p \in DOMAIN interview_periods :
          \A m \in interview_periods[p][1]..(interview_periods[p][2] - 1) :
              \E s \in DOMAIN time_slots :
                  time_slots[s].start <= m /\ m < time_slots[s].end

\* C38: the grid each scheduler generates consists of 108 slots of 20
\* minutes, in strictly increasing start order and pairwise non-overlapping,
\* that tile the five interview periods exactly; the generator of
\* SimpleScheduler and InterviewScheduler yields the same list as the one of
\* ImprovedScheduler.
C38_GridTilesPeriods ==
    scheduler \in {"improved", "simple", "exact"} =>
        /\ GridTilesPeriods
        /\ Simple_generate_time_slots(1) = time_slots

\* A scheduler has committed an interview in the first slot of the second
\* interview period.
C38_Witness ==
    \E k \in DOMAIN scheduled_interviews :
        /\ scheduled_interviews[k].time_slot.start = time_slots[13].start
        /\ time_slots[13].start = interview_periods[2][1]

====
